---- MODULE Spec2Model ----
(***************************************************************************)
(* A model of the interactive applications of vedo                         *)
(* (src/vedo/applications.py): the AnimationPlayer transport control and   *)
(* the Animation keyframe scheduler.                                       *)
(*                                                                         *)
(* Conventions.                                                            *)
(*  - Python's None is the empty sequence <<>> and a present value v is    *)
(*    the one-element sequence <<v>>.                                      *)
(*  - Each component has its own specification (SpecPlayer, SpecAnim); the *)
(*    variables of the other component stay as Init left them.             *)
(***************************************************************************)
EXTENDS Integers, Sequences, FiniteSets, TLC

None == <<>>
Some(v) == <<v>>

(***************************************************************************)
(* Bounds of the model.                                                    *)
(***************************************************************************)
\* min_value is drawn from 0..MaxMin
MaxMin == 1
\* max_value is drawn from min_value..min_value+MaxSpan (an empty range included)
MaxSpan == 3
\* set_frame is called with values from min_value-FrameMargin..max_value+FrameMargin
FrameMargin == 2
\* timer ids the render window can hand out
MaxTimers == 2

VARIABLES
    \* ---- AnimationPlayer ----
    value,              \* self.value, the current frame
    min_value,          \* self.min_value
    max_value,          \* self.max_value
    is_playing,         \* self.is_playing
    loop,               \* self._loop
    timer_id,           \* self.timer_id: None or Some(id)
    timers,             \* the render window's active timers (a set of ids)
    timer_callback_on,  \* whether timer_callback_id is still registered for "timer"
    button_status,      \* play_pause_button.status()
    slider_value,       \* self.slider.value
    widgets_on,         \* the buttons and the slider are in the scene
    func_calls,         \* the calls of self._func made by the last handler, in order
    stopped,            \* history: stop() has been called
    plast               \* history: the last player operation and the state it started from

pvars == <<value, min_value, max_value, is_playing, loop, timer_id, timers,
           timer_callback_on, button_status, slider_value, widgets_on,
           func_calls, stopped, plast>>

VARIABLES
    time_resolution,    \* self.time_resolution, in ms
    events,             \* self.events: a sequence of [t, action, acts, input]
    bookingMode,        \* self.bookingMode
    _lastT,             \* self._lastT: None or Some(ms)
    _lastDuration,      \* self._lastDuration: None or Some(ms)
    _lastActs,          \* self._lastActs: None or Some(list of objects)
    actors,             \* self.actors
    _performers,        \* self._performers
    _inputvalues,       \* self._inputvalues
    alpha,              \* the opacity of each object
    wireframe,          \* the representation of each object: 1 wireframe, 0 surface
    lighting,           \* <<ambient, diffuse, specular, specular power>> of each object
    plays,              \* the number of completed play() calls
    executed,           \* history: the events replayed by the current play(), in order
    booked,             \* history: the event queue as play() found it
    vis0,               \* history: the objects' visual state as play() found it
    calls,              \* history: the effect calls that passed _parse, with the values used
    specT,              \* history: the time most recently passed by the caller
    specDur,            \* history: the duration most recently passed by the caller
    specActs,           \* history: the object list most recently passed by the caller
    alast               \* history: the last Animation operation and the state it started from

avars == <<time_resolution, events, bookingMode, _lastT, _lastDuration, _lastActs,
           actors, _performers, _inputvalues, alpha, wireframe, lighting,
           plays, executed, booked, vis0, calls, specT, specDur,
           specActs, alast>>

VARIABLES
    \* ---- FreeHandCutPlotter ----
    cutter,             \* the plotter's fields, and the meshes it holds references to
    before_edit,        \* history: the mesh as it was before the most recent z, Z or L
    clast               \* history: the last handler run and the state it started from

fvars == <<cutter, before_edit, clast>>

VARIABLES
    \* ---- SplinePlotter ----
    spliner,            \* the plotter's fields, and which of its actors are in the scene
    slast               \* history: the last handler run, its input and what it started from

svars == <<spliner, slast>>

VARIABLES
    \* ---- Browser ----
    browser,            \* the plotter's fields, its objects and their visibility
    blast               \* history: the last call of slider_function

bvars == <<browser, blast>>

VARIABLES
    \* ---- IsosurfaceBrowser (CPU path) ----
    iso,                \* the closure's variables, the displayed actor and the meshes made
    extract_log,        \* history: the cache key of every extraction a request made
    first_mesh,         \* history: for each key requested, the mesh its first request returned
    ilast               \* history: the last call of slider_isovalue

ivars == <<iso, extract_log, first_mesh, ilast>>

VARIABLES
    \* ---- Slicer3DPlotter ----
    slicer,             \* the closure's variables and the plotter's actors
    zlast               \* history: the last callback

zvars == <<slicer, zlast>>

VARIABLES
    rng                 \* Slicer3DPlotter.__init__: the scalar range of the colormaps

kvars == <<rng>>

VARIABLES
    \* ---- RayCastPlotter ----
    ray,                \* the opacity sliders, the transfer function, colormap and mode
    rlast               \* history: the last callback

rvars == <<ray, rlast>>

VARIABLES
    \* ---- Assembly ----
    asm,                \* the Assembly under construction and use
    mlast               \* history: the last call, its arguments and what it returned

mvars == <<asm, mlast>>

VARIABLES
    grp,                \* the Group: its parts and the error of the last call
    glast               \* history: the last operation on the Group

gvars == <<grp, glast>>

VARIABLES
    align               \* procrustes_alignment: the sources and what the call gave

lvars == <<align>>

VARIABLES
    clock,              \* the Clock: its parts and the error of the last call
    tlast               \* history: the last operation on the Clock

tvars == <<clock, tlast>>

\* the components added after the player and the animation
xvars == <<fvars, svars, bvars, ivars, zvars, kvars, rvars, mvars, gvars, lvars, tvars>>

vars == <<pvars, avars, xvars>>

PLAY_SYMBOL == "play"
PAUSE_SYMBOL == "pause"

(***************************************************************************)
(* The render window's timers (Plotter.timer_callback).                    *)
(***************************************************************************)
TimerIds == 1..MaxTimers

\* timer_callback("create"): a timer that is not yet active
timer_create(ts) == CHOOSE i \in TimerIds \ ts : \A j \in TimerIds \ ts : i <= j

\* timer_callback("destroy", id)
timer_destroy(ts, id) == ts \ {id}

(***************************************************************************)
(* AnimationPlayer.  The mutable part of the player is handled as a record *)
(* so that a handler calling another one is a composition of operators.    *)
(***************************************************************************)
PState == [value |-> value, is_playing |-> is_playing, timer_id |-> timer_id,
           timers |-> timers, button_status |-> button_status,
           slider_value |-> slider_value, func_calls |-> <<>>]

\* AnimationPlayer.pause
pause(p) ==
    LET q == [p EXCEPT !.is_playing = FALSE]
        r == IF q.timer_id # None
             THEN [q EXCEPT !.timers = timer_destroy(q.timers, q.timer_id[1]),
                            !.timer_id = None]
             ELSE q
    IN [r EXCEPT !.button_status = PLAY_SYMBOL]

\* AnimationPlayer.resume
resume(p) ==
    LET ts == IF p.timer_id # None THEN timer_destroy(p.timers, p.timer_id[1])
              ELSE p.timers
        id == timer_create(ts)
    IN [p EXCEPT !.timers = ts \cup {id},
                 !.timer_id = Some(id),
                 !.is_playing = TRUE,
                 !.button_status = PAUSE_SYMBOL]

\* resolve_frame wrapping below min_value to max_value instead of max_value - 1
resolve_frame_wrap_max(v) ==
    IF loop
    THEN IF v < min_value THEN [value |-> max_value, pause |-> FALSE]
         ELSE IF v >= max_value THEN [value |-> min_value, pause |-> FALSE]
         ELSE [value |-> v, pause |-> FALSE]
    ELSE IF v < min_value THEN [value |-> min_value, pause |-> TRUE]
         ELSE IF v >= max_value - 1 THEN [value |-> max_value - 1, pause |-> TRUE]
         ELSE [value |-> v, pause |-> FALSE]

\* resolve_frame pausing only at max_value and beyond, not on reaching max_value - 1
resolve_frame_late_pause(v) ==
    IF loop
    THEN IF v < min_value THEN [value |-> max_value - 1, pause |-> FALSE]
         ELSE IF v >= max_value THEN [value |-> min_value, pause |-> FALSE]
         ELSE [value |-> v, pause |-> FALSE]
    ELSE IF v < min_value THEN [value |-> min_value, pause |-> TRUE]
         ELSE IF v >= max_value THEN [value |-> max_value - 1, pause |-> TRUE]
         ELSE [value |-> v, pause |-> FALSE]

\* the frame set_frame resolves `v` to, and whether it pauses on the way
resolve_frame(v) ==
    IF loop
    THEN IF v < min_value THEN [value |-> max_value - 1, pause |-> FALSE]
         ELSE IF v >= max_value THEN [value |-> min_value, pause |-> FALSE]
         ELSE [value |-> v, pause |-> FALSE]
    ELSE IF v < min_value THEN [value |-> min_value, pause |-> TRUE]
         ELSE IF v >= max_value - 1 THEN [value |-> max_value - 1, pause |-> TRUE]
         ELSE [value |-> v, pause |-> FALSE]

\* store_frame without the test for a changed frame
store_frame_always(p, v) ==
    [p EXCEPT !.value = v, !.slider_value = v,
              !.func_calls = Append(p.func_calls, v)]

\* the tail of set_frame: store the frame, move the slider, call the update function
store_frame(p, v) ==
    IF p.value # v
    THEN [p EXCEPT !.value = v, !.slider_value = v,
                   !.func_calls = Append(p.func_calls, v)]
    ELSE p

\* AnimationPlayer.set_frame
set_frame(p, v) ==
    LET r == resolve_frame(v)
        q == IF r.pause THEN pause(p) ELSE p
    IN store_frame(q, r.value)

\* int(round(x)) for x = h/2: Python rounds a half to the even neighbour
round_half_even(h) ==
    IF h % 2 = 0 THEN h \div 2
    ELSE LET k == (h - 1) \div 2 IN IF k % 2 = 0 THEN k ELSE k + 1

\* AnimationPlayer.stop, "stop timer": the timer is destroyed
stop_timer(p) ==
    IF p.timer_id # None
    THEN [p EXCEPT !.timers = timer_destroy(p.timers, p.timer_id[1]),
                   !.timer_id = None]
    ELSE p

PApply(p) ==
    /\ value' = p.value
    /\ is_playing' = p.is_playing
    /\ timer_id' = p.timer_id
    /\ timers' = p.timers
    /\ button_status' = p.button_status
    /\ slider_value' = p.slider_value
    /\ func_calls' = p.func_calls

PLast(op, arg) ==
    plast' = [op |-> op, arg |-> arg, value |-> value, is_playing |-> is_playing,
              timer_id |-> timer_id, timers |-> timers,
              button_status |-> button_status]

PFixed == UNCHANGED <<min_value, max_value, loop>> /\ UNCHANGED <<avars, xvars>>

ButtonNames == {"play_pause_button", "button_oneback", "button_oneforward"}
\* evt.actor.name of a click; "" is a click with no actor
ActorNames == ButtonNames \cup {""}

\* AnimationPlayer.__init__ for one irange and loop
PConstructed(irange, lp) ==
    /\ min_value = irange[1]
    /\ max_value = irange[2]
    /\ loop = lp
    /\ value = min_value - 1
    /\ is_playing = FALSE
    /\ timer_id = None
    /\ timers = {}
    /\ timer_callback_on = TRUE
    /\ button_status = PLAY_SYMBOL
    /\ slider_value = min_value
    /\ widgets_on = TRUE
    /\ func_calls = <<>>
    /\ stopped = FALSE
    /\ plast = [op |-> "init", arg |-> 0, value |-> min_value - 1,
                is_playing |-> FALSE, timer_id |-> None, timers |-> {},
                button_status |-> PLAY_SYMBOL]

\* AnimationPlayer.__init__ for the ranges and modes of the model
PInit ==
    \E lo \in 0..MaxMin : \E hi \in lo..(lo + MaxSpan) : \E lp \in BOOLEAN :
        PConstructed(<<lo, hi>>, lp)

\* pause() called by the user
Pause ==
    /\ PApply(pause(PState))
    /\ PLast("pause", 0)
    /\ PFixed /\ UNCHANGED <<timer_callback_on, widgets_on, stopped>>

\* resume() called by the user
Resume ==
    /\ PApply(resume(PState))
    /\ PLast("resume", 0)
    /\ PFixed /\ UNCHANGED <<timer_callback_on, widgets_on, stopped>>

\* AnimationPlayer.toggle: the play/pause button's callback
toggle(p, name) ==
    IF name = "play_pause_button"
    THEN IF ~p.is_playing THEN resume(p) ELSE pause(p)
    ELSE p

\* AnimationPlayer.oneforward
oneforward(p, name) ==
    IF name = "button_oneforward" THEN set_frame(pause(p), p.value + 1) ELSE p

\* AnimationPlayer.onebackward
onebackward(p, name) ==
    IF name = "button_oneback" THEN set_frame(pause(p), p.value - 1) ELSE p

\* AnimationPlayer._slider_callback, the widget at h/2
slider_callback(p, h) == set_frame(pause(p), round_half_even(h))

\* _handle_timer skipping a frame at every tick
handle_timer_skip(p) == set_frame(p, p.value + 2)

\* AnimationPlayer._handle_timer
handle_timer(p) == set_frame(p, p.value + 1)

\* a click delivered to toggle
Toggle ==
    /\ widgets_on
    /\ \E name \in ActorNames :
        /\ PApply(toggle(PState, name))
        /\ PLast("toggle", 0)
    /\ PFixed /\ UNCHANGED <<timer_callback_on, widgets_on, stopped>>

\* a click delivered to oneforward
OneForward ==
    /\ widgets_on
    /\ \E name \in ActorNames :
        /\ PApply(oneforward(PState, name))
        /\ PLast(IF name = "button_oneforward" THEN "oneforward" ELSE "click", value + 1)
    /\ PFixed /\ UNCHANGED <<timer_callback_on, widgets_on, stopped>>

\* a click delivered to onebackward
OneBackward ==
    /\ widgets_on
    /\ \E name \in ActorNames :
        /\ PApply(onebackward(PState, name))
        /\ PLast(IF name = "button_oneback" THEN "onebackward" ELSE "click", value - 1)
    /\ PFixed /\ UNCHANGED <<timer_callback_on, widgets_on, stopped>>

\* the slider is dragged to h/2, within its range [min_value, max_value - 1]
SliderDrag ==
    /\ widgets_on
    /\ \E h \in (2 * min_value)..(2 * (max_value - 1)) :
        /\ PApply(slider_callback(PState, h))
        /\ PLast("slider", round_half_even(h))
    /\ PFixed /\ UNCHANGED <<timer_callback_on, widgets_on, stopped>>

\* set_frame(v) called by the user
SetFrame ==
    /\ \E v \in (min_value - FrameMargin)..(max_value + FrameMargin) :
        /\ PApply(set_frame(PState, v))
        /\ PLast("set_frame", v)
    /\ PFixed /\ UNCHANGED <<timer_callback_on, widgets_on, stopped>>

\* an active timer of the window ticks: the "timer" event goes to the callbacks
\* still registered for it
TimerEvent ==
    /\ timers # {}
    /\ PApply(IF timer_callback_on THEN handle_timer(PState) ELSE PState)
    /\ PLast(IF timer_callback_on THEN "timer" ELSE "timer_unhandled", value + 1)
    /\ PFixed /\ UNCHANGED <<timer_callback_on, widgets_on, stopped>>

\* stop() with remove_callback left out
StopKeepsCallback ==
    /\ PApply(stop_timer(PState))
    /\ widgets_on' = FALSE
    /\ stopped' = TRUE
    /\ PLast("stop", 0)
    /\ PFixed /\ UNCHANGED timer_callback_on

\* AnimationPlayer.stop
Stop ==
    /\ PApply(stop_timer(PState))
    /\ timer_callback_on' = FALSE
    /\ widgets_on' = FALSE
    /\ stopped' = TRUE
    /\ PLast("stop", 0)
    /\ PFixed

PNext ==
    \/ Pause
    \/ Resume
    \/ Toggle
    \/ OneForward
    \/ OneBackward
    \/ SliderDrag
    \/ SetFrame
    \/ TimerEvent
    \/ Stop

(***************************************************************************)
(* AnimationPlayer: claims.                                                *)
(***************************************************************************)
\* the operations that end in a call of set_frame(plast.arg)
SetFrameOps == {"set_frame", "timer", "oneforward", "onebackward", "slider"}
\* those of them that do nothing but call set_frame
BareSetFrameOps == {"set_frame", "timer"}

\* the play/pause state is the one the last operation started from
PlayStateKept ==
    /\ is_playing = plast.is_playing
    /\ timer_id = plast.timer_id
    /\ timers = plast.timers
    /\ button_status = plast.button_status

\* playback is paused and the timer the last operation started with is destroyed
PausedNow ==
    /\ ~is_playing
    /\ timer_id = None
    /\ (plast.timer_id # None => plast.timer_id[1] \notin timers)

\* C1: with loop=True and min_value < max_value, set_frame(v) resolves to
\* max_value-1 when v < min_value, to min_value when v >= max_value and to v
\* otherwise, and set_frame itself never pauses playback.
C1_LoopWraps ==
    (loop /\ min_value < max_value /\ plast.op \in SetFrameOps) =>
        /\ value = IF plast.arg < min_value THEN max_value - 1
                   ELSE IF plast.arg >= max_value THEN min_value
                   ELSE plast.arg
        /\ (plast.op \in BareSetFrameOps => PlayStateKept)

\* a playing, looping player was sent below min_value and wrapped to max_value-1
C1_Witness ==
    /\ loop /\ min_value < max_value - 1
    /\ plast.op = "set_frame" /\ plast.arg < min_value
    /\ plast.is_playing /\ is_playing
    /\ value = max_value - 1

\* C2: with loop=False, set_frame(v) for v < min_value pauses and resolves to
\* min_value; otherwise for v >= max_value-1 it resolves to max_value-1 and
\* pauses; otherwise (min_value <= v < max_value-1) it resolves to v and leaves
\* the play/pause state as it was.
C2_NoLoopClamps ==
    (~loop /\ plast.op \in SetFrameOps) =>
        IF plast.arg < min_value
        THEN value = min_value /\ PausedNow
        ELSE IF plast.arg >= max_value - 1
        THEN value = max_value - 1 /\ PausedNow
        ELSE /\ value = plast.arg
             /\ (plast.op \in BareSetFrameOps => PlayStateKept)

\* a playing, non-looping player ticked onto its last frame and was paused there
C2_Witness ==
    /\ ~loop /\ min_value < max_value - 1
    /\ plast.op = "timer" /\ plast.arg = max_value - 1
    /\ plast.is_playing /\ plast.timer_id # None
    /\ value = max_value - 1 /\ ~is_playing /\ timers = {}

\* C3: the update function is called exactly once, with the resolved frame, by
\* every set_frame whose resolved frame differs from the frame before it, and
\* is not called when it equals it, nor by an operation that sets no frame.
C3_FuncOnlyOnChange ==
    func_calls = IF plast.op \in SetFrameOps /\ value # plast.value
                 THEN <<value>>
                 ELSE <<>>

\* a set_frame whose argument was resolved back to the current frame: no call
C3_Witness ==
    /\ plast.op = "set_frame"
    /\ plast.arg # value
    /\ value = plast.value
    /\ func_calls = <<>>

\* C4: stop(), from playing or paused, leaves no active timer (timer_id None)
\* and the tick callback unregistered; a timer event after stop() changes
\* neither the frame nor calls the update function.
C4_StopDetaches ==
    /\ (plast.op = "stop" =>
            timer_id = None /\ timers = {} /\ ~timer_callback_on)
    /\ ((stopped /\ plast.op \in {"timer", "timer_unhandled"}) =>
            value = plast.value /\ func_calls = <<>>)

\* a timer event of the window after stop()
C4_Witness ==
    /\ stopped
    /\ plast.op = "timer_unhandled"
    /\ timers # {}
    /\ value = plast.value

\* C36: in every state at most one timer exists, and is_playing is true
\* exactly when a timer is active (timer_id is not None).
C36_PlayingIffTimer ==
    /\ Cardinality(timers) <= 1
    /\ (is_playing <=> timer_id # None)

\* the frame is one of min_value..max_value-1
FrameInRange == min_value <= value /\ value <= max_value - 1

\* C37 as stated: for min_value < max_value the current frame is within
\* min_value..max_value-1 in every state from construction onward.
C37_FrameInRange ==
    min_value < max_value => FrameInRange

\* C37: for min_value < max_value the current frame is min_value-1 from
\* construction until the first operation that sets a frame, within
\* min_value..max_value-1 after that operation and, once within, stays within.
C37_FrameInRangeOnceSet ==
    /\ (min_value < max_value /\ plast.op = "init") => value = min_value - 1
    /\ [][ min_value < max_value =>
            (((plast'.op \in SetFrameOps) \/ FrameInRange) => FrameInRange')
         ]_vars

\* a looping player sent beyond max_value is back on its first frame
C37_Witness ==
    /\ loop /\ min_value < max_value - 1
    /\ plast.op = "set_frame" /\ plast.arg > max_value
    /\ plast.value = max_value - 1
    /\ value = min_value

\* the operations of the user while the player is not playing, stop() apart
IdleUser ==
    /\ ~is_playing
    /\ (Pause \/ Resume \/ Toggle \/ OneForward \/ OneBackward \/ SliderDrag \/ SetFrame)

\* playback left to itself: the user acts only on a player that is not playing
PlaybackNext ==
    \/ IdleUser
    \/ TimerEvent

\* one tick of a playing player over a range that is not empty, by the mode
TickAdvances ==
    (is_playing /\ min_value < max_value /\ plast'.op = "timer") =>
        IF loop
        THEN /\ is_playing'
             /\ value' = (IF value + 1 >= max_value THEN min_value ELSE value + 1)
             /\ func_calls' = (IF value' # value THEN <<value'>> ELSE <<>>)
        ELSE IF value < max_value - 1
        THEN /\ value' = value + 1
             /\ func_calls' = <<value + 1>>
             /\ (is_playing' <=> value + 1 < max_value - 1)
        ELSE /\ value' = value
             /\ func_calls' = <<>>
             /\ ~is_playing'

\* C38: over a range that is not empty, with playback started and the timer ticking with no other user action,
\* a non-looping player advances by one frame per tick, calling the update
\* function for each frame in increasing order, and eventually pauses at
\* max_value-1 with no timer left to call it again; a looping player never
\* pauses by itself and visits min_value..max_value-1 again and again.
C38_PlaysToTheEnd ==
    /\ [][TickAdvances]_vars
    /\ [](~is_playing => timers = {})
    /\ ((is_playing /\ ~loop /\ min_value < max_value)
            ~> (~is_playing /\ value = max_value - 1))
    /\ \A f \in 0..(MaxMin + MaxSpan) :
          (is_playing /\ loop /\ min_value <= f /\ f <= max_value - 1) ~> (value = f)

\* a non-looping player over several frames ticked onto its last frame: the
\* update function was called with it and playback paused
C38_Witness ==
    /\ ~loop /\ min_value < max_value - 1
    /\ plast.op = "timer" /\ plast.is_playing
    /\ plast.value = max_value - 2
    /\ value = max_value - 1
    /\ func_calls = <<max_value - 1>>
    /\ ~is_playing /\ timer_id = None

(***************************************************************************)
(* Animation.                                                              *)
(*                                                                         *)
(* Times are integers in milliseconds and opacities and lighting           *)
(* coefficients integers in thousandths, so that the arithmetic of the     *)
(* booking phase is exact on the inputs drawn below (a quotient that is    *)
(* not whole is rounded down).                                             *)
(***************************************************************************)
\* the default of time_resolution, 0.02 s
DefaultTimeResolution == 20
\* the value 1.0 of an opacity or a coefficient
One == 1000

\* the drawable objects of the scene
Objs == {"a", "b"}

\* bounds: effect calls booked, play() calls completed
MaxCalls == 2
MaxPlays == 1
\* bounds of the quantization check: times and durations in 0..MaxTime
MaxTime == 47

\* an object list as an argument: a sequence, or one object that is not a sequence
SeqArg(list) == Some([seq |-> TRUE, items |-> list])
OneArg(o) == Some([seq |-> FALSE, items |-> <<o>>])

\* vedo.utils.is_sequence
is_sequence(objs) == objs.seq

\* vedo.utils.lin_interpolate(x, [x0, x1], [y0, y1])
lin_interpolate(x, x0, x1, y0, y1) ==
    IF x1 = x0 THEN y0 ELSE y0 + ((x - x0) * (y1 - y0)) \div (x1 - x0)

\* numpy.linspace(start, stop, num)
linspace(start, stop, num) ==
    IF num = 1 THEN <<start>>
    ELSE [k \in 1..num |-> start + ((k - 1) * (stop - start)) \div (num - 1)]

\* int(num/den): truncation toward zero
int_trunc(num, den) ==
    IF num >= 0 THEN num \div den ELSE -((-num) \div den)

\* quantize_steps with the + 0.5 left out
quantize_steps_floor(x, res) == int_trunc(x, res)

\* int(x / res + 0.5)
quantize_steps(x, res) == int_trunc(2 * x + res, 2 * res)

\* Python truth of a number that may be None, and of a list that may be None
truthy_num(o) == o # None /\ o[1] # 0
truthy_list(o) == o # None /\ o[1] # <<>>

\* `if a not in self.actors: self.actors.append(a)` over a list of objects
RECURSIVE add_actors(_, _)
add_actors(acts, objs) ==
    IF objs = <<>> THEN acts
    ELSE add_actors(IF \E i \in 1..Len(acts) : acts[i] = Head(objs)
                    THEN acts ELSE Append(acts, Head(objs)),
                    Tail(objs))

\* the booking state of an Animation
AState == [time_resolution |-> time_resolution, events |-> events,
           lastT |-> _lastT, lastDuration |-> _lastDuration,
           lastActs |-> _lastActs, actors |-> actors]

ParseError(st) ==
    [err |-> "RuntimeError", st |-> st, acts |-> <<>>, t |-> 0, duration |-> 0,
     rng |-> <<>>]

\* _parse storing the quantized time before it checks the objects
_parse_stores_first(st, objs, t, duration) ==
    LET res == st.time_resolution
        t1 == IF t = None
              THEN IF truthy_num(st.lastT) THEN st.lastT[1] ELSE 0
              ELSE t[1]
        d1 == IF duration = None
              THEN IF truthy_num(st.lastDuration) THEN st.lastDuration[1] ELSE 0
              ELSE duration[1]
        tq == quantize_steps(t1, res) * res
        nsteps == quantize_steps(d1, res)
        dq == nsteps * res
    IN  IF objs = None /\ ~truthy_list(st.lastActs)
        THEN ParseError([st EXCEPT !.lastT = Some(tq)])
        ELSE LET objs1 == IF objs = None THEN [seq |-> TRUE, items |-> st.lastActs[1]]
                          ELSE objs[1]
                 objs2 == IF is_sequence(objs1) THEN objs1.items
                          ELSE <<objs1.items[1]>>
             IN [err |-> "",
                 st |-> [st EXCEPT !.lastT = Some(tq), !.lastDuration = Some(dq),
                                   !.lastActs = Some(objs2),
                                   !.actors = add_actors(st.actors, objs2)],
                 acts |-> objs2, t |-> tq, duration |-> dq,
                 rng |-> linspace(tq, tq + dq, nsteps + 1)]

\* Animation._parse
_parse(st, objs, t, duration) ==
    LET res == st.time_resolution
        t1 == IF t = None
              THEN IF truthy_num(st.lastT) THEN st.lastT[1] ELSE 0
              ELSE t[1]
        d1 == IF duration = None
              THEN IF truthy_num(st.lastDuration) THEN st.lastDuration[1] ELSE 0
              ELSE duration[1]
    IN  IF objs = None /\ ~truthy_list(st.lastActs)
        THEN ParseError(st)
        ELSE LET objs1 == IF objs = None THEN [seq |-> TRUE, items |-> st.lastActs[1]]
                          ELSE objs[1]
                 objs2 == IF is_sequence(objs1) THEN objs1.items
                          ELSE <<objs1.items[1]>>
                 tq == quantize_steps(t1, res) * res
                 nsteps == quantize_steps(d1, res)
                 dq == nsteps * res
             IN [err |-> "",
                 st |-> [st EXCEPT !.lastT = Some(tq), !.lastDuration = Some(dq),
                                   !.lastActs = Some(objs2),
                                   !.actors = add_actors(st.actors, objs2)],
                 acts |-> objs2, t |-> tq, duration |-> dq,
                 rng |-> linspace(tq, tq + dq, nsteps + 1)]

\* an entry of the event queue: (tt, action, acts, input values)
Event(tt, action, acts, input) ==
    [t |-> tt, action |-> action, acts |-> acts, input |-> input]

\* the result of an effect call in booking mode: the error raised ("" for none),
\* the booking state it leaves and the values _parse resolved
Booked(p, newevents) ==
    [err |-> p.err, st |-> [p.st EXCEPT !.events = @ \o newevents],
     acts |-> p.acts, t |-> p.t, duration |-> p.duration, parsed |-> TRUE]
Failed(p, err) ==
    [err |-> err, st |-> p.st, acts |-> p.acts, t |-> p.t, duration |-> p.duration,
     parsed |-> p.err = ""]

\* Animation.fade_in, booking
fade_in(st, objs, t, duration) ==
    LET p == _parse(st, objs, t, duration) IN
    IF p.err # "" THEN Failed(p, p.err)
    ELSE Booked(p, [k \in 1..Len(p.rng) |->
            Event(p.rng[k], "fade_in", p.acts,
                  <<lin_interpolate(p.rng[k], p.t, p.t + p.duration, 0, One)>>)])

\* Animation.fade_out, booking
fade_out(st, objs, t, duration) ==
    LET p == _parse(st, objs, t, duration) IN
    IF p.err # "" THEN Failed(p, p.err)
    ELSE Booked(p, [k \in 1..Len(p.rng) |->
            Event(p.rng[k], "fade_out", p.acts,
                  <<lin_interpolate(p.rng[k], p.t, p.t + p.duration, One, 0)>>)])

\* Animation.switch_on
switch_on(st, objs, t) == fade_in(st, objs, t, Some(0))

\* Animation.switch_off
switch_off(st, objs, t) == fade_out(st, objs, t, Some(0))

\* Animation.change_to_wireframe, booking
change_to_wireframe(st, objs, t) ==
    LET p == _parse(st, objs, t, None) IN
    IF p.err # "" THEN Failed(p, p.err)
    ELSE Booked(p, <<Event(p.t, "change_to_wireframe", p.acts, <<1>>)>>)

\* Animation.change_to_surface, booking
change_to_surface(st, objs, t) ==
    LET p == _parse(st, objs, t, None) IN
    IF p.err # "" THEN Failed(p, p.err)
    ELSE Booked(p, <<Event(p.t, "change_to_surface", p.acts, <<0>>)>>)

\* the lighting presets: ambient, diffuse, specular, specular power
Styles == {"metallic", "plastic", "shiny", "glossy", "default"}
pars(style) ==
    CASE style = "metallic" -> <<100, 300, 1000, 10000>>
      [] style = "plastic"  -> <<300, 400, 300, 5000>>
      [] style = "shiny"    -> <<200, 600, 800, 50000>>
      [] style = "glossy"   -> <<100, 700, 900, 90000>>
      [] style = "default"  -> <<100, 1000, 50, 5000>>

\* the input values of one change_lighting event: four numbers per object
RECURSIVE lighting_values(_, _, _, _, _, _)
lighting_values(acts, light, tt, t, duration, style) ==
    IF acts = <<>> THEN <<>>
    ELSE LET pr == light[Head(acts)]
         IN <<lin_interpolate(tt, t, t + duration, pr[1], pars(style)[1]),
              lin_interpolate(tt, t, t + duration, pr[2], pars(style)[2]),
              lin_interpolate(tt, t, t + duration, pr[3], pars(style)[3]),
              lin_interpolate(tt, t, t + duration, pr[4], pars(style)[4])>>
             \o lighting_values(Tail(acts), light, tt, t, duration, style)

\* Animation.change_lighting, booking.  An unknown style is logged and leaves
\* `pars` unbound: its first use, for the first object, raises.
change_lighting(st, light, style, objs, t, duration) ==
    LET p == _parse(st, objs, t, duration) IN
    IF p.err # "" THEN Failed(p, p.err)
    ELSE IF style \notin Styles /\ p.acts # <<>>
    THEN Failed(p, "UnboundLocalError")
    ELSE Booked(p, [k \in 1..Len(p.rng) |->
            Event(p.rng[k], "change_lighting", p.acts,
                  lighting_values(p.acts, light, p.rng[k], p.t, p.duration, style))])

\* Animation.change_alpha_between, booking: the events carry self.fade_out
change_alpha_between(st, alpha1, alpha2, objs, t, duration) ==
    LET p == _parse(st, objs, t, duration) IN
    IF p.err # "" THEN Failed(p, p.err)
    ELSE Booked(p, [k \in 1..Len(p.rng) |->
            Event(p.rng[k], "fade_out", p.acts,
                  <<lin_interpolate(p.rng[k], p.t, p.t + p.duration, alpha1, alpha2)>>)])

\* the visual state of the objects
Vis == [alpha |-> alpha, wireframe |-> wireframe, lighting |-> lighting]

Range(seq) == {seq[i] : i \in 1..Len(seq)}

\* Animation.fade_in, playback: raise the opacity of each performer to the input
fade_in_play(vis, perf, input) ==
    [vis EXCEPT !.alpha = [o \in Objs |->
        IF o \in Range(perf) /\ ~(vis.alpha[o] >= input[1]) THEN input[1]
        ELSE vis.alpha[o]]]

\* Animation.fade_out, playback: lower the opacity of each performer to the input
fade_out_play(vis, perf, input) ==
    [vis EXCEPT !.alpha = [o \in Objs |->
        IF o \in Range(perf) /\ ~(vis.alpha[o] <= input[1]) THEN input[1]
        ELSE vis.alpha[o]]]

\* Animation.change_alpha_between, playback: each performer takes the input
alpha_between_play(vis, perf, input) ==
    [vis EXCEPT !.alpha = [o \in Objs |->
        IF o \in Range(perf) THEN input[1] ELSE vis.alpha[o]]]

\* Animation.change_to_wireframe and change_to_surface, playback
wireframe_play(vis, perf, input) ==
    [vis EXCEPT !.wireframe = [o \in Objs |->
        IF o \in Range(perf) THEN input[1] ELSE vis.wireframe[o]]]

\* Animation.change_lighting, playback: performer i takes the i-th four values
RECURSIVE lighting_play(_, _, _)
lighting_play(vis, perf, input) ==
    IF perf = <<>> THEN vis
    ELSE lighting_play(
            [vis EXCEPT !.lighting[Head(perf)] = SubSeq(input, 1, 4)],
            Tail(perf), SubSeq(input, 5, Len(input)))

\* action(0, 0) with bookingMode off: the playback branch of the event's action
run_action(vis, action, perf, input) ==
    CASE action = "fade_in" -> fade_in_play(vis, perf, input)
      [] action = "fade_out" -> fade_out_play(vis, perf, input)
      [] action \in {"change_to_wireframe", "change_to_surface"} ->
            wireframe_play(vis, perf, input)
      [] action = "change_lighting" -> lighting_play(vis, perf, input)
      [] action = "change_alpha_between" -> alpha_between_play(vis, perf, input)

\* `e` put after the events of `sorted` that are not later than it
insert_by_time(sorted, e) ==
    LET k == Cardinality({i \in 1..Len(sorted) : sorted[i].t <= e.t})
    IN SubSeq(sorted, 1, k) \o <<e>> \o SubSeq(sorted, k + 1, Len(sorted))

\* the events left in booking order
sort_events_none(evs) == evs

\* `e` put after the events of `sorted` that are not earlier than it
insert_by_time_desc(sorted, e) ==
    LET k == Cardinality({i \in 1..Len(sorted) : sorted[i].t >= e.t})
    IN SubSeq(sorted, 1, k) \o <<e>> \o SubSeq(sorted, k + 1, Len(sorted))

\* the events sorted latest first
RECURSIVE sort_events_desc(_)
sort_events_desc(evs) ==
    IF evs = <<>> THEN <<>>
    ELSE insert_by_time_desc(sort_events_desc(SubSeq(evs, 1, Len(evs) - 1)),
                             evs[Len(evs)])

\* sorted(self.events, key=lambda x: x[0]): a stable sort by time
RECURSIVE sort_events(_)
sort_events(evs) ==
    IF evs = <<>> THEN <<>>
    ELSE insert_by_time(sort_events(SubSeq(evs, 1, Len(evs) - 1)), evs[Len(evs)])

(***************************************************************************)
(* Animation: the operations.                                              *)
(***************************************************************************)
\* the arguments the effect calls are made with
ActsArgs == {None, SeqArg(<<>>), SeqArg(<<"a", "b">>)}
ToggleActsArgs == {None, OneArg("a")}
TArgs == {None, Some(30)}
DArgs == {None, Some(47)}
StyleArgs == {"glossy", "neon"}
AlphaPairs == {<<0, One>>, <<One, 0>>}

AApply(st) ==
    /\ events' = st.events
    /\ _lastT' = st.lastT
    /\ _lastDuration' = st.lastDuration
    /\ _lastActs' = st.lastActs
    /\ actors' = st.actors

AFixed == UNCHANGED time_resolution /\ UNCHANGED <<pvars, xvars>>

\* a booking call that also applies its effect at once
BookingFrame_applies_now ==
    /\ alpha' = [o \in Objs |-> 0]
    /\ UNCHANGED <<bookingMode, _performers, _inputvalues, wireframe, lighting,
                   plays, executed, booked, vis0>>

BookingFrame ==
    UNCHANGED <<bookingMode, _performers, _inputvalues, alpha, wireframe, lighting,
                plays, executed, booked, vis0>>

ALast(op, style, err, objs, t, duration, used) ==
    alast' = [op |-> op, style |-> style, err |-> err, objs |-> objs, t |-> t,
              duration |-> duration, used |-> used, pre |-> AState,
              specT |-> specT, specDur |-> specDur, specActs |-> specActs]

NoUse == [acts |-> <<>>, t |-> 0, duration |-> 0]

\* an effect call in booking mode with result r; (objs, t, duration) are the
\* arguments the caller passed, None for one left out or one the effect does not take
\* par: the effect's own parameters (alpha1 and alpha2 of change_alpha_between)
CallP(kind, style, par, objs, t, duration, r) ==
    /\ bookingMode
    /\ Len(calls) < MaxCalls
    /\ AApply(r.st)
    /\ calls' = IF r.parsed
                THEN Append(calls, [kind |-> kind, style |-> style, par |-> par,
                                    acts |-> r.acts, t |-> r.t,
                                    duration |-> r.duration])
                ELSE calls
    /\ specT' = IF r.parsed /\ t # None THEN t ELSE specT
    /\ specDur' = IF r.parsed /\ duration # None THEN duration ELSE specDur
    /\ specActs' = IF r.parsed /\ objs # None THEN Some(r.acts) ELSE specActs
    /\ ALast(kind, style, r.err, objs, t, duration,
             [acts |-> r.acts, t |-> r.t, duration |-> r.duration])
    /\ BookingFrame /\ AFixed

Call(kind, style, objs, t, duration, r) ==
    CallP(kind, style, <<>>, objs, t, duration, r)

FadeIn ==
    \E objs \in ActsArgs, t \in TArgs, d \in DArgs :
        Call("fade_in", "", objs, t, d, fade_in(AState, objs, t, d))

FadeOut ==
    \E objs \in ActsArgs, t \in TArgs, d \in DArgs :
        Call("fade_out", "", objs, t, d, fade_out(AState, objs, t, d))

SwitchOn ==
    \E objs \in ToggleActsArgs, t \in TArgs :
        Call("switch_on", "", objs, t, None, switch_on(AState, objs, t))

SwitchOff ==
    \E objs \in ToggleActsArgs, t \in TArgs :
        Call("switch_off", "", objs, t, None, switch_off(AState, objs, t))

ChangeToWireframe ==
    \E objs \in ToggleActsArgs, t \in TArgs :
        Call("change_to_wireframe", "", objs, t, None,
             change_to_wireframe(AState, objs, t))

ChangeToSurface ==
    \E objs \in ToggleActsArgs, t \in TArgs :
        Call("change_to_surface", "", objs, t, None,
             change_to_surface(AState, objs, t))

ChangeLighting ==
    \E style \in StyleArgs, objs \in ActsArgs :
        Call("change_lighting", style, objs, None, None,
             change_lighting(AState, lighting, style, objs, None, None))

\* an effect call after bookingMode was left off: the playback branch runs on
\* the performers and input values at hand
ChangeAlphaBetween ==
    \E pr \in AlphaPairs :
        CallP("change_alpha_between", "", pr, OneArg("a"), None, Some(47),
              change_alpha_between(AState, pr[1], pr[2], OneArg("a"), None, Some(47)))

EffectOutsideBooking ==
    /\ ~bookingMode
    /\ \E kind \in {"fade_in", "fade_out", "change_to_wireframe", "change_lighting",
                   "change_alpha_between"} :
        LET vis == run_action(Vis, kind, _performers, _inputvalues) IN
        /\ alpha' = vis.alpha
        /\ wireframe' = vis.wireframe
        /\ lighting' = vis.lighting
        /\ ALast("outside_booking", "", "", None, None, None, NoUse)
    /\ UNCHANGED <<events, bookingMode, _lastT, _lastDuration, _lastActs, actors,
                   _performers, _inputvalues, plays, executed, booked,
                   vis0, calls, specT, specDur, specActs>>
    /\ AFixed

\* Animation.play with an empty queue: bookingMode is switched off and
\* self.events[-1] raises
PlayEmpty ==
    /\ events = <<>>
    /\ bookingMode' = FALSE
    /\ ALast("play", "", "IndexError", None, None, None, NoUse)
    /\ UNCHANGED <<events, _lastT, _lastDuration, _lastActs, actors, _performers,
                   _inputvalues, alpha, wireframe, lighting, plays,
                   executed, booked, vis0, calls, specT, specDur, specActs>>
    /\ AFixed

\* the loop of play(): each event of `evs` in turn is unpacked into the
\* performers and input values and its action run; `run` is the replay so far:
\* the visual state, the performers and input values, and the events run
RECURSIVE replay(_, _)
replay(run, evs) ==
    IF evs = <<>> THEN run
    ELSE LET e == Head(evs)
         IN replay([vis |-> run_action(run.vis, e.action, e.acts, e.input),
                    performers |-> e.acts,
                    inputvalues |-> e.input,
                    log |-> Append(run.log, e)],
                   Tail(evs))

\* Animation.play: the queue is sorted, bookingMode switched off, every event
\* replayed and bookingMode switched on again
Play ==
    /\ bookingMode
    /\ events # <<>>
    /\ plays < MaxPlays
    /\ LET sorted == sort_events(events)
           run == replay([vis |-> Vis, performers |-> _performers,
                          inputvalues |-> _inputvalues, log |-> <<>>], sorted)
       IN /\ events' = sorted
          /\ _performers' = run.performers
          /\ _inputvalues' = run.inputvalues
          /\ alpha' = run.vis.alpha
          /\ wireframe' = run.vis.wireframe
          /\ lighting' = run.vis.lighting
          /\ executed' = run.log
    /\ bookingMode' = TRUE
    /\ plays' = plays + 1
    /\ booked' = events
    /\ vis0' = Vis
    /\ ALast("play", "", "", None, None, None, NoUse)
    /\ UNCHANGED <<_lastT, _lastDuration, _lastActs, actors, calls,
                   specT, specDur, specActs>>
    /\ AFixed

\* Animation.__init__ with one time_resolution
AConstructed(res) ==
    /\ time_resolution = res
    /\ events = <<>>
    /\ bookingMode = TRUE
    /\ _lastT = None
    /\ _lastDuration = None
    /\ _lastActs = None
    /\ actors = <<>>
    /\ _performers = <<>>
    /\ _inputvalues = <<>>
    /\ alpha = [o \in Objs |-> One]
    /\ wireframe = [o \in Objs |-> 0]
    /\ lighting = [o \in Objs |-> pars("default")]
    /\ plays = 0
    /\ executed = <<>>
    /\ booked = <<>>
    /\ vis0 = [alpha |-> [o \in Objs |-> One], wireframe |-> [o \in Objs |-> 0],
               lighting |-> [o \in Objs |-> pars("default")]]
    /\ calls = <<>>
    /\ specT = None
    /\ specDur = None
    /\ specActs = None
    /\ alast = [op |-> "init", style |-> "", err |-> "", objs |-> None, t |-> None,
                duration |-> None, used |-> NoUse,
                pre |-> [time_resolution |-> res, events |-> <<>>, lastT |-> None,
                         lastDuration |-> None, lastActs |-> None, actors |-> <<>>],
                specT |-> None, specDur |-> None, specActs |-> None]

AInit == AConstructed(DefaultTimeResolution)

ANext ==
    \/ FadeIn
    \/ FadeOut
    \/ SwitchOn
    \/ SwitchOff
    \/ ChangeToWireframe
    \/ ChangeToSurface
    \/ ChangeLighting
    \/ ChangeAlphaBetween
    \/ EffectOutsideBooking
    \/ PlayEmpty
    \/ Play

(***************************************************************************)
(* Animation: claims.                                                      *)
(***************************************************************************)
EffectKinds == {"fade_in", "fade_out", "switch_on", "switch_off",
                "change_to_wireframe", "change_to_surface", "change_lighting",
                "change_alpha_between"}

\* the number of times e occurs in seq
Count(e, seq) == Cardinality({i \in 1..Len(seq) : seq[i] = e})

\* C5: play() replays the booked events in non-decreasing order of their
\* quantized time, whatever the booking order: no event runs after one with a
\* strictly later time, and every booked event runs exactly once.
C5_ReplayInTimeOrder ==
    /\ \A i, j \in 1..Len(executed) : i < j => executed[i].t <= executed[j].t
    /\ Len(executed) = Len(booked)
    /\ \A e \in Range(booked) : Count(e, executed) = Count(e, booked)

\* a play() of a queue that was booked out of time order
C5_Witness ==
    /\ alast.op = "play" /\ alast.err = ""
    /\ Len(executed) >= 4
    /\ \E i, j \in 1..Len(booked) : i < j /\ booked[i].t > booked[j].t

\* a freshly constructed Animation with the resolution of this one
Fresh == [time_resolution |-> time_resolution, events |-> <<>>, lastT |-> None,
          lastDuration |-> None, lastActs |-> None, actors |-> <<>>]

\* the booking state after the recorded call c, made with every argument given
book_call(st, c) ==
    CASE c.kind = "fade_in" ->
            fade_in(st, SeqArg(c.acts), Some(c.t), Some(c.duration)).st
      [] c.kind = "fade_out" ->
            fade_out(st, SeqArg(c.acts), Some(c.t), Some(c.duration)).st
      [] c.kind = "switch_on" -> switch_on(st, SeqArg(c.acts), Some(c.t)).st
      [] c.kind = "switch_off" -> switch_off(st, SeqArg(c.acts), Some(c.t)).st
      [] c.kind = "change_to_wireframe" ->
            change_to_wireframe(st, SeqArg(c.acts), Some(c.t)).st
      [] c.kind = "change_to_surface" ->
            change_to_surface(st, SeqArg(c.acts), Some(c.t)).st
      [] c.kind = "change_lighting" ->
            change_lighting(st, vis0.lighting, c.style, SeqArg(c.acts),
                            Some(c.t), Some(c.duration)).st
      [] c.kind = "change_alpha_between" ->
            change_alpha_between(st, c.par[1], c.par[2], SeqArg(c.acts),
                                 Some(c.t), Some(c.duration)).st

RECURSIVE book_all(_, _)
book_all(st, cs) ==
    IF cs = <<>> THEN st ELSE book_all(book_call(st, Head(cs)), Tail(cs))

\* what play() replays, and the visual state it leaves, after the calls cs
\* were booked in this order on a fresh Animation
ReplayOf(cs) ==
    replay([vis |-> vis0, performers |-> <<>>, inputvalues |-> <<>>, log |-> <<>>],
           sort_events(book_all(Fresh, cs).events))

Perms(n) == {f \in [1..n -> 1..n] : \A i, j \in 1..n : i # j => f[i] # f[j]}
Permute(cs, f) == [i \in 1..Len(cs) |-> cs[f[i]]]

\* the quantized times of the events that call c books
CallTimes(c) == {e.t : e \in Range(book_call(Fresh, c).events)}

\* no two events booked by different calls fall on the same quantized time
NoCrossTies(cs) ==
    \A i, j \in 1..Len(cs) : i # j => CallTimes(cs[i]) \cap CallTimes(cs[j]) = {}

\* the first play() of an Animation has just run
FirstPlayDone == alast.op = "play" /\ alast.err = "" /\ plays = 1

\* C6 as claimed: whatever order the same effect calls are booked in, play()
\* replays the same sequence of events and leaves the same visual state, also
\* when events of two calls fall on the same quantized time.
C6_AnyBookingOrder ==
    FirstPlayDone =>
        \A f \in Perms(Len(calls)) :
            LET r == ReplayOf(Permute(calls, f))
            IN r.log = executed /\ r.vis = Vis

\* C6, amended: whatever order the same effect calls are booked in, play()
\* replays the same sequence of events and leaves the same visual state,
\* provided no two events booked by different calls fall on the same
\* quantized time.
C6_OrderFreeWithoutTies ==
    (FirstPlayDone /\ NoCrossTies(calls)) =>
        \A f \in Perms(Len(calls)) :
            LET r == ReplayOf(Permute(calls, f))
            IN r.log = executed /\ r.vis = Vis

\* two different calls without a common event time were booked and played
C6_Witness ==
    /\ FirstPlayDone
    /\ Len(calls) >= 2
    /\ calls[1] # calls[2]
    /\ NoCrossTies(calls)
    /\ Len(executed) >= 2
    /\ Vis # vis0

\* C7: for t, duration >= 0 a booking call starts at t rounded half-up to a
\* multiple of time_resolution, lasts duration rounded half-up to
\* nsteps*time_resolution, and records exactly nsteps+1 events, at
\* start + k*time_resolution for k = 0..nsteps.
C7_Quantized ==
    (alast.op \in {"fade_in", "fade_out"} /\ alast.err = ""
        /\ alast.t # None /\ alast.duration # None) =>
        LET res == time_resolution
            t == alast.t[1]
            d == alast.duration[1]
            start == alast.used.t
            dur == alast.used.duration
            nsteps == dur \div res
            new == SubSeq(events, Len(alast.pre.events) + 1, Len(events))
        IN  /\ start % res = 0
            /\ 2 * start - res <= 2 * t /\ 2 * t < 2 * start + res
            /\ dur % res = 0
            /\ 2 * dur - res <= 2 * d /\ 2 * d < 2 * dur + res
            /\ Len(new) = nsteps + 1
            /\ \A k \in 0..nsteps : new[k + 1].t = start + k * res

\* the fade of testable property 4: t = 0.013 and duration = 0.047 at 0.02
C7_Witness ==
    /\ alast.op = "fade_in" /\ alast.err = ""
    /\ time_resolution = 20
    /\ alast.t = Some(13) /\ alast.duration = Some(47)
    /\ alast.used.t = 20 /\ alast.used.duration = 40
    /\ Len(events) = 3

\* C8 as claimed: a call that leaves out the objects, the time or the
\* duration uses the value most recently passed by an earlier call (the time
\* and the duration on the grid); calls that did not pass it, switch_on,
\* switch_off, change_to_wireframe and change_to_surface among them, do not
\* change it.  Stated of the call that could come next in each booking state.
C8_StickyDefaults ==
    bookingMode =>
        /\ (specT # None =>
                _parse(AState, OneArg("a"), None, None).t
                    = quantize_steps(specT[1], time_resolution) * time_resolution)
        /\ (specDur # None =>
                _parse(AState, OneArg("a"), None, None).duration
                    = quantize_steps(specDur[1], time_resolution) * time_resolution)
        /\ ((specActs # None /\ specActs[1] # <<>>) =>
                /\ _parse(AState, None, None, None).err = ""
                /\ _parse(AState, None, None, None).acts = specActs[1])

\* C9: an effect call with no objects passed, and none passed by any earlier
\* call, fails, and leaves the event queue, the sticky time, duration and
\* objects and the actor list as they were.
C9_NoObjectsFails ==
    (alast.op \in EffectKinds /\ alast.objs = None /\ alast.specActs = None) =>
        /\ alast.err = "RuntimeError"
        /\ AState = alast.pre

\* a first call that passes a time and a duration but no objects
C9_Witness ==
    /\ alast.op = "fade_in"
    /\ alast.objs = None /\ alast.specActs = None
    /\ alast.t # None /\ alast.duration # None
    /\ alast.err = "RuntimeError"
    /\ events = <<>> /\ _lastT = None

\* C10: change_lighting with a style that is none of metallic, plastic, shiny,
\* glossy, default reports an error and books nothing, for any object list
\* (the empty one included), time and duration.
C10_UnknownStyleBooksNothing ==
    (alast.op = "change_lighting" /\ alast.style \notin Styles) =>
        /\ alast.err # ""
        /\ events = alast.pre.events

IsPrefix(s1, s2) == Len(s1) <= Len(s2) /\ SubSeq(s2, 1, Len(s1)) = s1
NoDup(seq) == \A i, j \in 1..Len(seq) : i # j => seq[i] # seq[j]

C33_AlphaBothWays ==
    (/\ alast.op = "play" /\ alast.err = ""
     /\ Len(calls) = 1 /\ calls[1].kind = "change_alpha_between") =>
        \A o \in Range(calls[1].acts) : alpha[o] = calls[1].par[2]

(***************************************************************************)
(* The quantization of one booking call, over a range of times, durations  *)
(* and resolutions.                                                        *)
(***************************************************************************)
QuantResolutions == {DefaultTimeResolution, DefaultTimeResolution + 5}

QInit == \E res \in QuantResolutions : AConstructed(res)

QuantFadeIn ==
    /\ calls = <<>>
    /\ \E t \in 0..MaxTime, d \in 0..MaxTime :
        Call("fade_in", "", OneArg("a"), Some(t), Some(d),
             fade_in(AState, OneArg("a"), Some(t), Some(d)))

QuantFadeOut ==
    /\ calls = <<>>
    /\ \E t \in 0..MaxTime, d \in 0..MaxTime :
        Call("fade_out", "", OneArg("a"), Some(t), Some(d),
             fade_out(AState, OneArg("a"), Some(t), Some(d)))

QNext ==
    \/ QuantFadeIn
    \/ QuantFadeOut

(***************************************************************************)
(* FreeHandCutPlotter.  A mesh is known by what was done to it: the         *)
(* sequence of edits, each with its serial number.  Python references are   *)
(* indices into cutter.meshes, so that a change made in place shows through *)
(* every reference to the same object.  Points are integers on a line.      *)
(***************************************************************************)
\* the curve holds at most MaxCurve points
MaxCurve == 3
\* at most MaxEdits cuts and extractions
MaxEdits == 2
\* tol, as the fraction TolNum / TolDen
TolNum == 1
TolDen == 2
\* mesh.diagonal_size() of the input mesh
Diag0 == 3

\* the places a pick can land on
Coords == {0, 1, 2}
Abs(x) == IF x < 0 THEN -x ELSE x
Last(seq) == seq[Len(seq)]

\* Mesh.diagonal_size(): every edit takes something away
diagonal_size(content) == IF Diag0 > Len(content) THEN Diag0 - Len(content) ELSE 0

\* Spline(pts) / Line(pts), open or closed
Curve(pts, closed) == Some([pts |-> pts, closed |-> closed])

\* FreeHandCutPlotter.__init__
CutterConstructed ==
    [mesh |-> 1, mesh_prev |-> 1, meshes |-> << <<>> >>, nedits |-> 0,
     drawmode |-> FALSE, cpoints |-> <<>>, cpoints_is_array |-> FALSE,
     points |-> None, spline |-> None, jline |-> None, topline |-> None,
     top_pts |-> <<>>, txt2d_background |-> "color"]

\* FreeHandCutPlotter.init(init_points): cpoints becomes a numpy array
init_points(c, pts) ==
    [c EXCEPT !.cpoints = pts, !.cpoints_is_array = TRUE,
              !.points = Some(pts), !.spline = Curve(pts, FALSE),
              !.jline = Some(<<pts[1], Last(pts)>>)]

\* FreeHandCutPlotter._on_right_click
_on_right_click(c) ==
    IF ~c.drawmode
    THEN [c EXCEPT !.drawmode = TRUE, !.txt2d_background = "linecolor"]
    ELSE IF Len(c.cpoints) > 2
         THEN [c EXCEPT !.drawmode = FALSE, !.txt2d_background = "color",
                        !.spline = Curve(c.cpoints, TRUE)]
         ELSE [c EXCEPT !.drawmode = FALSE, !.txt2d_background = "color"]

\* a candidate that is accepted whatever its distance
too_close_never(c, cpt) == FALSE

\* self.cpoints and mag(cpt - self.cpoints[-1]) < self.mesh.diagonal_size() * self.tol
too_close(c, cpt) ==
    /\ c.cpoints # <<>>
    /\ TolDen * Abs(cpt - Last(c.cpoints)) < TolNum * diagonal_size(c.meshes[c.mesh])

\* bool() of a numpy array of more than one element raises
move_raises(c) == c.drawmode /\ c.cpoints_is_array

\* the previews rebuilt whatever the length of the curve
rebuild_always(c, onactor, picked3d) ==
    LET tops == IF onactor THEN Append(c.top_pts, picked3d) ELSE c.top_pts IN
    [c EXCEPT !.points = Some(c.cpoints), !.spline = Curve(c.cpoints, FALSE),
              !.top_pts = tops,
              !.topline = IF onactor THEN Some(tops) ELSE @,
              !.txt2d_background = "linecolor",
              !.jline = Some(<<c.cpoints[1], Last(c.cpoints)>>)]

\* _on_mouse_move, after the append: the previews are rebuilt from the third point on
rebuild(c, onactor, picked3d) ==
    IF Len(c.cpoints) > 2 THEN rebuild_always(c, onactor, picked3d) ELSE c

\* FreeHandCutPlotter._on_mouse_move
_on_mouse_move(c, cpt, onactor, picked3d) ==
    IF ~c.drawmode \/ move_raises(c) \/ too_close(c, cpt) THEN c
    ELSE rebuild([c EXCEPT !.cpoints = Append(@, cpt)], onactor, picked3d)

\* the snapshot is the mesh object itself
snapshot_alias(c) == [c EXCEPT !.mesh_prev = c.mesh]

\* self.mesh_prev = self.mesh.clone()
snapshot(c) ==
    [c EXCEPT !.meshes = Append(@, @[c.mesh]), !.mesh_prev = Len(c.meshes) + 1]

\* clearing the curve and leaving draw mode with it
clear_curve_and_mode(c) ==
    [c EXCEPT !.cpoints = <<>>, !.cpoints_is_array = FALSE, !.points = None,
              !.spline = None, !.top_pts = <<>>, !.topline = None,
              !.drawmode = FALSE]

\* self.cpoints, self.points, self.spline = [], None, None
\* self.top_pts, self.topline = [], None
clear_curve(c) ==
    [c EXCEPT !.cpoints = <<>>, !.cpoints_is_array = FALSE, !.points = None,
              !.spline = None, !.top_pts = <<>>, !.topline = None]

\* if self.drawmode: self._on_right_click(evt)  else: background(self.color)
leave_drawmode(c) ==
    IF c.drawmode THEN _on_right_click(c) ELSE [c EXCEPT !.txt2d_background = "color"]

Edit(key, n) == [key |-> key, n |-> n]

\* the keys that cut or extract, when they do
edits_mesh(c, key) == (key \in {"z", "Z"} /\ c.spline # None) \/ key = "L"

\* FreeHandCutPlotter._on_keypress
_on_keypress(c, key) ==
    IF key \in {"z", "Z"} /\ c.spline # None
    THEN LET c1 == snapshot(c)
             c2 == [c1 EXCEPT !.meshes[c1.mesh] = Append(@, Edit(key, c.nedits + 1)),
                              !.nedits = @ + 1]
         IN clear_curve(leave_drawmode(c2))
    ELSE IF key = "L"
    THEN [c EXCEPT !.mesh_prev = c.mesh,
                   !.meshes = Append(@, Append(@[c.mesh], Edit(key, c.nedits + 1))),
                   !.mesh = Len(c.meshes) + 1,
                   !.nedits = @ + 1,
                   !.txt2d_background = "color"]
    ELSE IF key = "u"
    THEN LET c1 == leave_drawmode(c)
         IN clear_curve([c1 EXCEPT !.mesh = c1.mesh_prev])
    ELSE IF key \in {"c", "Delete"}
    THEN clear_curve(c)
    ELSE c

\* meshes that nothing refers to any more are freed
collect(c) ==
    IF c.mesh = c.mesh_prev
    THEN [c EXCEPT !.meshes = <<c.meshes[c.mesh]>>, !.mesh = 1, !.mesh_prev = 1]
    ELSE [c EXCEPT !.meshes = <<c.meshes[c.mesh], c.meshes[c.mesh_prev]>>,
                   !.mesh = 1, !.mesh_prev = 2]

\* the current mesh, as an edit history
MeshOf(c) == c.meshes[c.mesh]

\* the last handler: its input, the error it raised, whether it found the
\* plotter drawing and whether it changed anything
CLast(op, key, cpt, err) ==
    clast' = [op |-> op, key |-> key, cpt |-> cpt, err |-> err,
              drawmode |-> cutter.drawmode, changed |-> cutter' # cutter]

CFixed == UNCHANGED <<pvars, avars, svars, bvars, ivars, zvars, kvars, rvars, mvars, gvars, lvars, tvars>>

CInit ==
    /\ cutter = CutterConstructed
    /\ before_edit = None
    /\ clast = [op |-> "construct", key |-> "", cpt |-> 0, err |-> "",
                drawmode |-> FALSE, changed |-> FALSE]

\* the initial curves handed to init()
InitCurves == {<<0, 2, 1>>}

CutInit ==
    /\ clast.op = "construct"
    /\ \E pts \in InitCurves : cutter' = init_points(cutter, pts)
    /\ CLast("init", "", 0, "")
    /\ UNCHANGED before_edit
    /\ CFixed

RightClick ==
    /\ cutter' = _on_right_click(cutter)
    /\ CLast("right_click", "", 0, "")
    /\ UNCHANGED before_edit
    /\ CFixed

MouseMove ==
    /\ Len(cutter.cpoints) < MaxCurve
    /\ \E cpt \in Coords, onactor \in BOOLEAN :
        /\ cutter' = _on_mouse_move(cutter, cpt, onactor, cpt)
        /\ CLast("mouse_move", "", cpt, IF move_raises(cutter) THEN "ValueError" ELSE "")
    /\ UNCHANGED before_edit
    /\ CFixed

Keys == {"z", "Z", "L", "u", "c", "Delete", "h"}

KeyPress ==
    \E key \in Keys :
        /\ edits_mesh(cutter, key) => cutter.nedits < MaxEdits
        /\ cutter' = collect(_on_keypress(cutter, key))
        /\ before_edit' = IF edits_mesh(cutter, key) THEN Some(MeshOf(cutter))
                          ELSE before_edit
        /\ CLast("keypress", key, 0, "")
        /\ CFixed

CNext ==
    \/ CutInit
    \/ RightClick
    \/ MouseMove
    \/ KeyPress

\* C12: pressing u makes the current mesh the mesh as it was just before the
\* most recent cut (z, Z) or extraction (L) and never an older one, empties
\* the curve and leaves draw mode; a second u in a row leaves the mesh as it is.
C12_SingleLevelUndo ==
    [][ (clast'.op = "keypress" /\ clast'.key = "u") =>
            /\ MeshOf(cutter') = IF before_edit = None THEN <<>> ELSE before_edit[1]
            /\ cutter'.cpoints = <<>>
            /\ cutter'.points = None /\ cutter'.spline = None
            /\ ~cutter'.drawmode
            /\ (clast.key = "u" => MeshOf(cutter') = MeshOf(cutter))
      ]_vars

\* u pressed while drawing, after two edits of which the first stays
C12_Witness ==
    /\ clast.op = "keypress" /\ clast.key = "u"
    /\ clast.drawmode /\ clast.changed
    /\ cutter.nedits = 2
    /\ before_edit # None /\ Len(before_edit[1]) = 1
    /\ MeshOf(cutter) = before_edit[1]

\* the candidate of a mouse move is closer to the last point than tol * diagonal
CandidateTooClose(c, cpt) ==
    /\ c.cpoints # <<>>
    /\ TolDen * Abs(cpt - Last(c.cpoints)) < TolNum * diagonal_size(MeshOf(c))

\* C13: every right-click flips drawmode; a mouse move appends a point only
\* while drawmode is on and the candidate is at least tol*diagonal_size away
\* from the last point; a move with drawmode off, or with a candidate too
\* close, leaves the curve, the mesh and the undo snapshot as they were.
C13_DrawMode ==
    [][ /\ clast'.op = "right_click" => cutter'.drawmode = ~cutter.drawmode
        /\ clast'.op = "mouse_move" =>
            /\ cutter'.cpoints # cutter.cpoints =>
                /\ cutter.drawmode
                /\ ~CandidateTooClose(cutter, clast'.cpt)
                /\ cutter'.cpoints = Append(cutter.cpoints, clast'.cpt)
            /\ (~cutter.drawmode \/ CandidateTooClose(cutter, clast'.cpt)) =>
                /\ cutter' = cutter
                /\ before_edit' = before_edit
      ]_vars

\* a candidate refused while drawing because it is too close to the last
\* point, on a mesh that has been cut
C13_Witness ==
    /\ clast.op = "mouse_move" /\ clast.err = ""
    /\ clast.drawmode /\ ~clast.changed
    /\ Len(cutter.cpoints) >= 2
    /\ clast.cpt # Last(cutter.cpoints)
    /\ CandidateTooClose(cutter, clast.cpt)

\* a mouse move has just added its point to the curve
PointAccepted == clast.op = "mouse_move" /\ clast.changed

\* the preview curve and the preview point set hold exactly the curve's points
PreviewShowsCurve ==
    /\ cutter.points = Some(cutter.cpoints)
    /\ cutter.spline = Curve(cutter.cpoints, FALSE)

\* C14 as claimed: after each accepted point, from the first one on, the
\* preview curve and the preview point set contain exactly the accepted points.
C14_PreviewFromFirstPoint ==
    PointAccepted => PreviewShowsCurve

\* C14, amended: after each accepted point that makes the curve longer than
\* two points, the preview curve and the preview point set contain exactly
\* the accepted points; the first two accepted points build no preview.
C14_PreviewFromThirdPoint ==
    PointAccepted =>
        IF Len(cutter.cpoints) > 2 THEN PreviewShowsCurve
        ELSE cutter.points = None /\ cutter.spline = None

\* the last point of a full curve has just been accepted
C14_Witness ==
    /\ PointAccepted
    /\ Len(cutter.cpoints) = MaxCurve
    /\ PreviewShowsCurve

\* the mesh, the undo snapshot (and whether it is the mesh itself) and the
\* draw mode are the same in c and d
SameMeshAndMode(c, d) ==
    /\ MeshOf(d) = MeshOf(c)
    /\ d.meshes[d.mesh_prev] = c.meshes[c.mesh_prev]
    /\ (d.mesh = d.mesh_prev) = (c.mesh = c.mesh_prev)
    /\ d.drawmode = c.drawmode

\* C34: c or Delete empties the current curve and leaves the mesh, the undo
\* snapshot and the draw mode as they were; z or Z with no curve (fewer than
\* three accepted points and no init() curve) leaves all three as they were.
C34_ClearAndIdleCut ==
    [][ clast'.op = "keypress" =>
            /\ clast'.key \in {"c", "Delete"} =>
                  /\ cutter'.cpoints = <<>>
                  /\ cutter'.points = None /\ cutter'.spline = None
                  /\ cutter'.top_pts = <<>> /\ cutter'.topline = None
                  /\ SameMeshAndMode(cutter, cutter')
            /\ (/\ clast'.key \in {"z", "Z"}
                /\ Len(cutter.cpoints) < 3 /\ ~cutter.cpoints_is_array) =>
                  /\ SameMeshAndMode(cutter, cutter')
                  /\ before_edit' = before_edit
      ]_vars

\* c pressed while drawing a curve on a mesh that was cut before: the curve
\* is gone and the plotter still draws
C34_Witness ==
    /\ clast.op = "keypress" /\ clast.key = "c"
    /\ clast.drawmode /\ clast.changed
    /\ cutter.drawmode
    /\ cutter.cpoints = <<>> /\ cutter.spline = None
    /\ cutter.nedits = 1
    /\ MeshOf(cutter) # cutter.meshes[cutter.mesh_prev]

(***************************************************************************)
(* SplinePlotter.  Points are integers on a line; vpoints and line are the  *)
(* point lists the Points and Spline / Line objects were built from.        *)
(***************************************************************************)
\* the point list holds at most MaxPts points
MaxPts == 4

Front(seq) == SubSeq(seq, 1, Len(seq) - 1)
RemoveAt(seq, i) == SubSeq(seq, 1, i - 1) \o SubSeq(seq, i + 1, Len(seq))

\* Spline(points) raises ValueError: two neighbours too close to fit
spline_fails(pts) == \E i \in 1..(Len(pts) - 1) : pts[i] = pts[i + 1]

\* the first point of the list, whatever was picked
closest_point_first(pts, p) == 1

\* Points.closest_point(p, return_point_id=True): the first of the nearest
closest_point(pts, p) ==
    CHOOSE i \in 1..Len(pts) :
        \A j \in 1..Len(pts) :
            \/ Abs(pts[i] - p) < Abs(pts[j] - p)
            \/ (Abs(pts[i] - p) = Abs(pts[j] - p) /\ i <= j)

\* SplinePlotter.__init__
SplinerConstructed(init_pts, splined) ==
    [cpoints |-> init_pts, vpoints |-> None, line |-> None, splined |-> splined,
     vpoints_shown |-> FALSE, line_shown |-> FALSE]

\* _update builds a curve of these points, and the spline cannot be built
update_fails(sp) ==
    sp.splined /\ Len(sp.cpoints) > 2 /\ spline_fails(sp.cpoints)

\* SplinePlotter._update
_update(sp) ==
    LET s1 == [sp EXCEPT !.line_shown = FALSE, !.vpoints_shown = FALSE,
                         !.vpoints = Some(sp.cpoints)]
        minnr == IF sp.splined THEN 2 ELSE 1
    IN IF Len(sp.cpoints) > minnr
       THEN IF sp.splined /\ spline_fails(sp.cpoints)
            THEN [s1 EXCEPT !.cpoints = Front(@)]
            ELSE [s1 EXCEPT !.line = Some(sp.cpoints),
                            !.vpoints_shown = TRUE, !.line_shown = TRUE]
       ELSE [s1 EXCEPT !.vpoints_shown = TRUE]

\* SplinePlotter.points(newpts)
points(sp, newpts) == _update([sp EXCEPT !.cpoints = newpts])

\* SplinePlotter._on_left_click; actor is "" when the click hits nothing
_on_left_click(sp, actor, picked3d) ==
    IF actor = "" THEN sp
    ELSE IF actor = "points"
    THEN _update([sp EXCEPT !.cpoints =
                    RemoveAt(@, closest_point(sp.vpoints[1], picked3d))])
    ELSE _update([sp EXCEPT !.cpoints = Append(@, picked3d)])

\* a right-click that removes the last point wherever it lands
spline_on_right_click_anywhere(sp, actor) ==
    IF Len(sp.cpoints) > 0 THEN _update([sp EXCEPT !.cpoints = Front(@)]) ELSE sp

\* SplinePlotter._on_right_click
spline_on_right_click(sp, actor) ==
    IF actor # "" /\ Len(sp.cpoints) > 0
    THEN _update([sp EXCEPT !.cpoints = Front(@)])
    ELSE sp

\* SplinePlotter._key_press
_key_press(sp, key) ==
    IF key = "c"
    THEN [sp EXCEPT !.cpoints = <<>>, !.line_shown = FALSE, !.vpoints_shown = FALSE]
    ELSE sp

\* what the scene shows of the curve: the line and the point set
Shown(sp) ==
    [line |-> IF sp.line_shown THEN sp.line ELSE None,
     points |-> IF sp.vpoints_shown THEN sp.vpoints ELSE None]

\* the last handler: its input, and whether its update failed to build the spline
SLast(op, actor, picked3d, failed) ==
    slast' = [op |-> op, actor |-> actor, picked |-> picked3d, failed |-> failed,
              before |-> spliner.cpoints]

SFixed == UNCHANGED <<pvars, avars, fvars, bvars, ivars, zvars, kvars, rvars, mvars, gvars, lvars, tvars>>

\* the point lists handed to the constructor and to points(newpts)
InitPoints == {<<>>, <<0, 0, 1, 2>>}
NewPoints == {<<>>, <<0, 1, 2>>, <<1, 1, 2>>}

SConstructed(init_pts, splined) ==
    /\ spliner = SplinerConstructed(init_pts, splined)
    /\ slast = [op |-> "construct", actor |-> "", picked |-> 0, failed |-> FALSE,
                before |-> init_pts]

SInit == \E init_pts \in InitPoints, splined \in BOOLEAN : SConstructed(init_pts, splined)

\* the actors a click can hit: nothing, the object, or the point set when it
\* is in the scene and has points
ClickTargets(sp) ==
    {"", "object"} \cup
    (IF sp.vpoints_shown /\ sp.vpoints # None /\ sp.vpoints[1] # <<>>
     THEN {"points"} ELSE {})

LeftClick ==
    \E actor \in ClickTargets(spliner), p \in Coords :
        /\ actor = "object" => Len(spliner.cpoints) < MaxPts
        /\ spliner' = _on_left_click(spliner, actor, p)
        /\ SLast("left_click", actor, p,
                 \/ actor = "object"
                        /\ update_fails([spliner EXCEPT !.cpoints = Append(@, p)])
                 \/ actor = "points"
                        /\ update_fails([spliner EXCEPT !.cpoints =
                              RemoveAt(@, closest_point(spliner.vpoints[1], p))]))
        /\ SFixed

SplineRightClick ==
    \E actor \in ClickTargets(spliner) :
        /\ spliner' = spline_on_right_click(spliner, actor)
        /\ SLast("right_click", actor, 0,
                 actor # "" /\ Len(spliner.cpoints) > 0
                    /\ update_fails([spliner EXCEPT !.cpoints = Front(@)]))
        /\ SFixed

SplineKeyPress ==
    \E key \in {"c", "h"} :
        /\ spliner' = _key_press(spliner, key)
        /\ SLast("key_" \o key, "", 0, FALSE)
        /\ SFixed

SetPoints ==
    \E newpts \in NewPoints :
        /\ spliner' = points(spliner, newpts)
        /\ SLast("points", "", 0, update_fails([spliner EXCEPT !.cpoints = newpts]))
        /\ SFixed

SNext ==
    \/ LeftClick
    \/ SplineRightClick
    \/ SplineKeyPress
    \/ SetPoints

\* i is the index of a point of pts nearest to p
IsNearest(pts, i, p) ==
    i \in 1..Len(pts) /\ \A j \in 1..Len(pts) : Abs(pts[i] - p) <= Abs(pts[j] - p)

\* C15: a left-click that hits no actor changes nothing; one on the rendered
\* point set removes exactly one point, the one nearest to the pick, and adds
\* none; one on any other actor appends the picked location as the last point
\* and removes none.
C15_LeftClick ==
    [][ slast'.op = "left_click" =>
            /\ slast'.actor = "" => spliner' = spliner
            /\ slast'.actor = "points" =>
                \E i \in 1..Len(spliner.cpoints) :
                    /\ IsNearest(spliner.cpoints, i, slast'.picked)
                    /\ spliner'.cpoints = RemoveAt(spliner.cpoints, i)
            /\ slast'.actor \notin {"", "points"} =>
                spliner'.cpoints = Append(spliner.cpoints, slast'.picked)
      ]_vars

\* C16 as claimed: with at least one point any right-click, wherever it
\* lands, takes exactly the last element off the point list; with no points
\* it changes nothing.
C16_RightClickAnywhere ==
    [][ slast'.op = "right_click" =>
            IF spliner.cpoints # <<>>
            THEN spliner'.cpoints = Front(spliner.cpoints)
            ELSE spliner' = spliner
      ]_vars

\* C16, amended: a right-click that lands on an actor, with at least one
\* point, takes the last element off the point list, and one more when the
\* spline of the remaining points cannot be built; a right-click that lands on
\* no actor, or with no points, changes nothing.
C16_RightClickOnActor ==
    [][ slast'.op = "right_click" =>
            IF slast'.actor # "" /\ spliner.cpoints # <<>>
            THEN spliner'.cpoints =
                    IF slast'.failed THEN Front(Front(spliner.cpoints))
                    ELSE Front(spliner.cpoints)
            ELSE spliner' = spliner
      ]_vars

\* a right-click on the object has taken the third point off a shown curve
C16_Witness ==
    /\ slast.op = "right_click" /\ slast.actor = "object" /\ ~slast.failed
    /\ Len(slast.before) = 3
    /\ spliner.cpoints = Front(slast.before)
    /\ spliner.vpoints_shown /\ spliner.vpoints = Some(spliner.cpoints)

\* C17: when the spline cannot be built during an update, the curve shown
\* before the step is still shown after it, and the point whose addition
\* caused the failure is the one discarded.
C17_FailureKeepsCurve ==
    [][ slast'.failed =>
            /\ Shown(spliner') = Shown(spliner)
            /\ (slast'.op = "left_click" /\ slast'.actor = "object") =>
                    spliner'.cpoints = spliner.cpoints
      ]_vars

\* a click on a point of the set removed it, and the failed update another
DeletionTakesTwo ==
    /\ slast.op = "left_click" /\ slast.actor = "points" /\ slast.failed
    /\ Len(spliner.cpoints) = Len(slast.before) - 2

\* C39: after every click that hits an actor, every `c` key press and every
\* points(newpts) call, the point set shown holds exactly the points of the
\* current list (none for an empty list), also when the spline failed.
C39_DisplayConsistent ==
    (\/ slast.op \in {"left_click", "right_click"} /\ slast.actor # ""
     \/ slast.op \in {"key_c", "points"}) =>
        \/ spliner.vpoints_shown /\ spliner.vpoints = Some(spliner.cpoints)
        \/ ~spliner.vpoints_shown /\ spliner.cpoints = <<>>

(***************************************************************************)
(* Browser.  The objects are the pairs <<i, j>>: object j of series i, all  *)
(* series of the same length.  The slider value is counted in halves, a     *)
(* file name is the sequence of its path components.                        *)
(***************************************************************************)
\* a series holds 1..MaxObjs objects
MaxObjs == 3
\* the number of series
SeriesCounts == {1, 2}

\* the objects handed to the Browser
BObjects(n, m) == (0..(n - 1)) \X (0..(m - 1))

\* ak.name and ak.filename of object <<i, j>>
name_of(b, o) ==
    IF b.named THEN "obj" \o ToString(o[1]) \o ToString(o[2]) ELSE ""
filename_of(b, o) ==
    IF b.filed THEN <<"data", "f" \o ToString(o[1]) \o ToString(o[2]) \o ".vtk">>
    ELSE <<>>

\* filename.split("/")[-1]
basename(path) == path[Len(path)]

\* int(self.slider.value)
slider_index(b) == b.slider_value \div 2

\* the pass is run whatever the index
needs_pass_always(b, k) == TRUE

\* k == self._oldk does not hold
needs_pass(b, k) == b._oldk # Some(k)

\* the title that slider_function computes for index k
slider_title_for(b, k) ==
    LET akon == <<b.n - 1, k>>
        ak == <<b.n - 1, b.m - 1>>
        tx == ToString(k)
    IN IF b.slider_title # "" THEN b.slider_title \o " " \o tx
       ELSE IF b.n = 1 /\ filename_of(b, akon) # <<>>
       THEN basename(filename_of(b, akon))
       ELSE IF name_of(b, akon) # "" THEN name_of(b, ak) \o " " \o tx
       ELSE tx

\* Browser.slider_function
slider_function(b) ==
    LET k == slider_index(b) IN
    IF ~needs_pass(b, k) THEN b
    ELSE [b EXCEPT !._oldk = Some(k),
                   !.on = [o \in BObjects(b.n, b.m) |-> o[2] = k],
                   !.title = slider_title_for(b, k)]

\* Browser.__init__, up to the init call of slider_function: the slider
\* starts at its minimum, 0.5
BrowserBuilt(n, m, named, filed, title) ==
    [n |-> n, m |-> m, named |-> named, filed |-> filed, slider_title |-> title,
     actors |-> BObjects(n, m),
     on |-> [o \in BObjects(n, m) |-> TRUE],
     _oldk |-> None, slider_value |-> 1, title |-> "",
     timer_callback_id |-> None]

\* Browser.__init__
BrowserConstructed(n, m, named, filed, title) ==
    slider_function(BrowserBuilt(n, m, named, filed, title))

BLast(op, same, ran) ==
    blast' = [op |-> op, same_index |-> same, ran_pass |-> ran]

BFixed == UNCHANGED <<pvars, avars, fvars, svars, ivars, zvars, kvars, rvars, mvars, gvars, lvars, tvars>>

BConstructed(n, m, named, filed, title) ==
    /\ browser = BrowserConstructed(n, m, named, filed, title)
    /\ blast = [op |-> "construct", same_index |-> FALSE, ran_pass |-> TRUE]

BInit ==
    \E n \in SeriesCounts, m \in 1..MaxObjs, named \in BOOLEAN, filed \in BOOLEAN,
       title \in {"", "frame"} :
        BConstructed(n, m, named, filed, title)

\* the slider is dragged to a value between 0.5 and nobs - 0.5
SliderMove ==
    \E h \in 1..(2 * browser.m - 1) :
        LET b1 == [browser EXCEPT !.slider_value = h] IN
        /\ browser' = slider_function(b1)
        /\ BLast("slider", browser._oldk = Some(slider_index(b1)),
                 needs_pass(b1, slider_index(b1)))
        /\ BFixed

\* Browser.play
BrowserPlay ==
    /\ browser.timer_callback_id = None
    /\ browser' = [browser EXCEPT !.timer_callback_id = Some(1)]
    /\ BLast("play", FALSE, FALSE)
    /\ BFixed

\* a timer event while playing: slider_function is the "timer" callback
BrowserTimer ==
    /\ browser.timer_callback_id # None
    /\ browser' = slider_function(browser)
    /\ BLast("timer", browser._oldk = Some(slider_index(browser)),
             needs_pass(browser, slider_index(browser)))
    /\ BFixed

BNext ==
    \/ SliderMove
    \/ BrowserPlay
    \/ BrowserTimer

\* C18: after construction and after every slider update, in every series
\* exactly the object at the selected index is on and all others are off, no
\* object has left the plotter, and selecting the index already selected does
\* not run the on/off pass again.
C18_OnlySelectedOn ==
    /\ \A o \in BObjects(browser.n, browser.m) :
            browser.on[o] <=> (o[2] = slider_index(browser))
    /\ browser.actors = BObjects(browser.n, browser.m)
    /\ (blast.same_index => ~blast.ran_pass)

\* the slider was moved within the same index, in a browser of two series
C18_Witness ==
    /\ blast.op = "slider" /\ blast.same_index
    /\ browser.n = 2 /\ browser.m >= 2
    /\ slider_index(browser) = 1
    /\ browser.slider_value = 3

\* the visible object of the title: the selected one of the last series
VisibleObject == <<browser.n - 1, slider_index(browser)>>

\* C19: with no slider_title given, the title is the basename of the visible
\* object's filename when there is one series and the object has a filename;
\* otherwise the visible object's name followed by the index when it has a
\* name; otherwise the bare index.
C19_SliderTitle ==
    browser.slider_title = "" =>
        browser.title =
            IF browser.n = 1 /\ filename_of(browser, VisibleObject) # <<>>
            THEN basename(filename_of(browser, VisibleObject))
            ELSE IF name_of(browser, VisibleObject) # ""
            THEN name_of(browser, VisibleObject) \o " "
                    \o ToString(slider_index(browser))
            ELSE ToString(slider_index(browser))

(***************************************************************************)
(* IsosurfaceBrowser, CPU path.  Scalar values are integers.  A mesh is an  *)
(* index into iso.meshes, which records the val it was extracted at, so   *)
(* that two extractions at one val are still two objects.                 *)
(***************************************************************************)
\* res, the number of allowed values, is drawn from 2..MaxRes
MaxRes == 4
\* scrange[1] - scrange[0]
Delta == 60
\* scrange[0]
RangeStarts == {0, 1000}

\* 10^n
RECURSIVE Pow10(_)
Pow10(n) == IF n = 0 THEN 1 ELSE 10 * Pow10(n - 1)

\* the number of decimal digits of x > 0
RECURSIVE Digits(_)
Digits(x) == IF x < 10 THEN 1 ELSE 1 + Digits(x \div 10)

\* vedo.utils.precision(x, p): x rounded half-up to p significant digits
precision(x, p) ==
    IF x = 0 \/ Digits(x) <= p THEN x
    ELSE LET tens == Pow10(Digits(x) - p)
         IN ((2 * x + tens) \div (2 * tens)) * tens

\* allowed_vals = np.linspace(scrange[0], scrange[1], num=res)
allowed_vals(b) == linspace(b.lo, b.lo + Delta, b.res)

\* (np.abs(allowed_vals - val)).argmin(): the first of the nearest
snap(b, val) ==
    LET av == allowed_vals(b) IN
    av[CHOOSE i \in 1..Len(av) :
        \A j \in 1..Len(av) :
            \/ Abs(av[i] - val) < Abs(av[j] - val)
            \/ (Abs(av[i] - val) = Abs(av[j] - val) /\ i <= j)]

\* abs(val - self._prev_value) / delta < 0.001
ignored(b, val) ==
    b._prev_value # None /\ 1000 * Abs(snap(b, val) - b._prev_value[1]) < Delta

\* a cache that never has the key
in_cache_never(b, key) == FALSE

\* value_name in bacts
in_cache(b, key) == \E e \in b.bacts : e[1] = key

\* bacts[value_name]
cached(b, key) == (CHOOSE e \in b.bacts : e[1] = key)[2]

\* volume.isosurface(val) / volume.legosurface(vmin=val), stored:
\* bacts.update({value_name: mesh})
extract_and_store(b, val) ==
    LET key == precision(val, 2) IN
    [b EXCEPT !.meshes = Append(@, val),
              !.bacts = {e \in @ : e[1] # key} \cup {<<key, Len(b.meshes) + 1>>}]

\* the isovalue slider callback
slider_isovalue(b, val) ==
    IF ignored(b, val) THEN b
    ELSE LET v == snap(b, val)
             key == precision(v, 2)
             b1 == IF in_cache(b, key) THEN b ELSE extract_and_store(b, v)
         IN [b1 EXCEPT !._prev_value = Some(v), !.actor0 = Some(cached(b1, key))]

\* for val in allowed_vals: ... bacts.update({value_name: mesh})
RECURSIVE precompute_all(_, _)
precompute_all(b, vals) ==
    IF vals = <<>> THEN b
    ELSE precompute_all(extract_and_store(b, Head(vals)), Tail(vals))

\* IsosurfaceBrowser.__init__, up to the init call of the callback
IsoBuilt(lo, res, precompute) ==
    LET b0 == [lo |-> lo, res |-> res, precompute |-> precompute,
               _prev_value |-> None, bacts |-> {}, meshes |-> <<>>,
               actor0 |-> None]
    IN IF precompute THEN precompute_all(b0, allowed_vals(b0)) ELSE b0

\* isovalue = delta / 3.0 + scrange[0]
default_isovalue(lo) == Delta \div 3 + lo

\* what a call of the callback leaves in the history
LogOf(b, val, log) ==
    IF ~ignored(b, val) /\ ~in_cache(b, precision(snap(b, val), 2))
    THEN Append(log, precision(snap(b, val), 2)) ELSE log
FirstOf(b, val, firsts) ==
    LET key == precision(snap(b, val), 2)
        b2 == slider_isovalue(b, val)
    IN IF ignored(b, val) \/ (\E e \in firsts : e[1] = key) THEN firsts
       ELSE firsts \cup {<<key, b2.actor0[1]>>}
LastOf(b, val) ==
    [op |-> "slider", value |-> val, key |-> precision(snap(b, val), 2),
     ignored |-> ignored(b, val),
     hit |-> in_cache(b, precision(snap(b, val), 2))]

IFixed == UNCHANGED <<pvars, avars, fvars, svars, bvars, zvars, kvars, rvars, mvars, gvars, lvars, tvars>>

IConstructed(lo, res, precompute) ==
    LET b == IsoBuilt(lo, res, precompute)
        v == default_isovalue(lo)
    IN /\ iso = slider_isovalue(b, v)
       /\ extract_log = LogOf(b, v, <<>>)
       /\ first_mesh = FirstOf(b, v, {})
       /\ ilast = [LastOf(b, v) EXCEPT !.op = "construct"]

IInit ==
    \E lo \in RangeStarts, res \in 2..MaxRes, precompute \in BOOLEAN :
        IConstructed(lo, res, precompute)

\* the values the slider can be dragged to
SliderValues(b) == {b.lo + 5 * k : k \in 1..((Delta \div 5) - 1)}

IsoSlider ==
    /\ Len(iso.meshes) <= 2 * iso.res
    /\ \E val \in SliderValues(iso) :
        /\ iso' = slider_isovalue(iso, val)
        /\ extract_log' = LogOf(iso, val, extract_log)
        /\ first_mesh' = FirstOf(iso, val, first_mesh)
        /\ ilast' = LastOf(iso, val)
    /\ IFixed

INext == IsoSlider

\* C20: over any sequence of slider updates a surface is extracted at most
\* once per cache key, and a request whose key was requested before returns
\* the very mesh object its first request returned, without extracting.
C20_CacheOncePerKey ==
    /\ \A i, j \in 1..Len(extract_log) : i # j => extract_log[i] # extract_log[j]
    /\ ~ilast.ignored =>
        /\ iso.actor0 # None
        /\ <<ilast.key, iso.actor0[1]>> \in first_mesh
    /\ \A e1, e2 \in first_mesh : e1[1] = e2[1] => e1 = e2

\* a val is requested again after another one was shown in between
C20_Witness ==
    /\ ilast.op = "slider" /\ ~ilast.ignored /\ ilast.hit
    /\ ~iso.precompute
    /\ Len(extract_log) >= 2
    /\ extract_log[1] = ilast.key
    /\ iso.actor0 = Some(1)

\* C40: after a slider update that the no-op guard lets through, the
\* surface displayed is the one extracted at the allowed value nearest to the
\* slider value, so that two allowed values never share a mesh; an ignored
\* update leaves the display, the cache and the last-shown value as they were.
C40_ShowsNearestAllowed ==
    [][ ilast'.op = "slider" =>
            IF ilast'.ignored THEN iso' = iso
            ELSE iso'.meshes[iso'.actor0[1]] = snap(iso, ilast'.value)
      ]_vars

(***************************************************************************)
(* Slicer3DPlotter.  The scene is the plotter's list of actors; a colormap  *)
(* is its index in the list cmaps.  Plotter.add and Plotter.remove are not  *)
(* part of the sources: add appends to the list, remove(name) takes out     *)
(* every actor of that name.                                                *)
(***************************************************************************)
\* each dimension of the volume is drawn from 1..MaxDim
MaxDim == 2
\* len(cmaps)
CmapCounts == {1, 3}
\* the raw scalar range and the log-weighted centroid of the histogram:
\* rmin <= meanlog <= rmax, in steps of 100
RawRanges ==
    {r \in {0, 100, 200} \X {800, 900, 1000} \X {100 * k : k \in 0..10} :
        r[1] <= r[3] /\ r[3] <= r[2]}

AxisName(a) == <<"XSlice", "YSlice", "ZSlice">>[a]

\* "Slice" in m.name
IsSlice(m) == m.name \in {"XSlice", "YSlice", "ZSlice"}

\* Plotter.remove(name)
remove(acts, name) == SelectSeq(acts, LAMBDA m : m.name # name)

\* the display range, both bounds from the raw range
clamp_range_raw(rmin, rmax, meanlog) ==
    <<IF meanlog - ((rmax - meanlog) * 9) \div 10 > rmin
        THEN meanlog - ((rmax - meanlog) * 9) \div 10 ELSE rmin,
      IF meanlog + ((meanlog - rmin) * 9) \div 10 < rmax
        THEN meanlog + ((meanlog - rmin) * 9) \div 10 ELSE rmax>>

\* rmax = min(rmax, meanlog + (meanlog - rmin) * 0.9)
\* rmin = max(rmin, meanlog - (rmax - meanlog) * 0.9)
clamp_range(rmin, rmax, meanlog) ==
    LET rmax1 == IF meanlog + ((meanlog - rmin) * 9) \div 10 < rmax
                 THEN meanlog + ((meanlog - rmin) * 9) \div 10 ELSE rmax
        rmin1 == IF meanlog - ((rmax1 - meanlog) * 9) \div 10 > rmin
                 THEN meanlog - ((rmax1 - meanlog) * 9) \div 10 ELSE rmin
    IN <<rmin1, rmax1>>

\* volume.xslice(i) etc., coloured with the current colormap
SliceMesh(s, a, i) ==
    [name |-> AxisName(a), cmap |-> s._cmap_slicer, idx |-> i, bar |-> FALSE]

\* m2.scalarbar of a clone of a slice
ScalarBar(cm) == [name |-> "scalarbar", cmap |-> cm, idx |-> 0, bar |-> FALSE]

\* Slicer3DPlotter.__init__
SlicerConstructed(dims, ncmaps, inplace) ==
    [dims |-> dims, ncmaps |-> ncmaps, inplace |-> inplace,
     _cmap_slicer |-> 1,
     bu |-> 1,
     old |-> <<None, None, None>>,
     actors |-> <<[name |-> "ZSlice", cmap |-> 1, idx |-> dims[3] \div 2,
                   bar |-> ncmaps > 1]>>]

\* every index counts as inside
inside_always(i, dim) == TRUE

\* 0 < i < dims[a]
inside(i, dim) == 0 < i /\ i < dim

\* if i == self._oldi: return
same_index(s, a, i) == s.old[a] = Some(i)

\* slider_function_x, _y, _z
slider_function_axis(s, a, i) ==
    IF same_index(s, a, i) THEN s
    ELSE [s EXCEPT !.old[a] = Some(i),
                   !.actors = IF inside(i, s.dims[a])
                              THEN Append(remove(@, AxisName(a)), SliceMesh(s, a, i))
                              ELSE remove(@, AxisName(a))]

\* for m in self.actors, when remove and add change the list being iterated
RECURSIVE recolor_inplace(_, _, _)
recolor_inplace(acts, p, cm) ==
    IF p > Len(acts) THEN acts
    ELSE IF IsSlice(acts[p])
         THEN recolor_inplace(
                Append(remove([acts EXCEPT ![p].cmap = cm], "scalarbar"), ScalarBar(cm)),
                p + 1, cm)
         ELSE recolor_inplace(acts, p + 1, cm)

\* for m in self.actors, when remove and add leave the iterated list alone
RECURSIVE recolor_snapshot(_, _, _)
recolor_snapshot(todo, acts, cm) ==
    IF todo = <<>> THEN acts
    ELSE IF IsSlice(Head(todo))
         THEN recolor_snapshot(
                Tail(todo),
                Append(remove([k \in 1..Len(acts) |->
                                 IF acts[k].name = Head(todo).name
                                 THEN [acts[k] EXCEPT !.cmap = cm] ELSE acts[k]],
                              "scalarbar"),
                       ScalarBar(cm)),
                cm)
         ELSE recolor_snapshot(Tail(todo), acts, cm)

\* Button.switch: the next state, cyclically
switch(s) == (s.bu % s.ncmaps) + 1

\* buttonfunc, for a click that hit the button
buttonfunc(s) ==
    LET cm == switch(s) IN
    [s EXCEPT !.bu = cm, !._cmap_slicer = cm,
              !.actors = IF s.inplace THEN recolor_inplace(@, 1, cm)
                         ELSE recolor_snapshot(@, @, cm)]

ZLast(op, a, i, same) == [op |-> op, axis |-> a, i |-> i, same |-> same]

ZFixed == UNCHANGED <<pvars, avars, fvars, svars, bvars, ivars, kvars, rvars, mvars, gvars, lvars, tvars>>

ZConstructed(dims, ncmaps, inplace) ==
    /\ slicer = SlicerConstructed(dims, ncmaps, inplace)
    /\ zlast = ZLast("construct", 3, dims[3] \div 2, FALSE)

ZInit ==
    \E dx \in 1..MaxDim, dz \in 1..MaxDim, ncmaps \in CmapCounts,
       inplace \in BOOLEAN :
        ZConstructed(<<dx, 2, dz>>, ncmaps, inplace)

SlicerSlider ==
    /\ \E a \in 1..3 : \E i \in 0..slicer.dims[a] :
        /\ slicer' = slider_function_axis(slicer, a, i)
        /\ zlast' = ZLast("slider", a, i, same_index(slicer, a, i))
    /\ ZFixed

SlicerButton ==
    /\ slicer.ncmaps > 1
    /\ slicer' = buttonfunc(slicer)
    /\ zlast' = ZLast("button", 0, 0, FALSE)
    /\ ZFixed

ZNext == SlicerSlider \/ SlicerButton

SlicesOf(s, a) == {k \in 1..Len(s.actors) : s.actors[k].name = AxisName(a)}

\* C21: the scene holds at most one slice per axis; after a slider update
\* with index i on an axis it holds that axis's slice, taken at i, exactly
\* when 0 < i < dimension; an update repeating the axis's index changes nothing.
C21_SliceInsideOnly ==
    [][ /\ \A a \in 1..3 : Cardinality(SlicesOf(slicer', a)) <= 1
        /\ zlast'.op = "slider" =>
            /\ (SlicesOf(slicer', zlast'.axis) # {})
                    <=> (0 < zlast'.i /\ zlast'.i < slicer.dims[zlast'.axis])
            /\ \A k \in SlicesOf(slicer', zlast'.axis) : slicer'.actors[k].idx = zlast'.i
            /\ slicer.old[zlast'.axis] = Some(zlast'.i) => slicer' = slicer
      ]_vars

\* a slice of an axis is replaced by the slice at another inner index
C21_Witness ==
    /\ zlast.op = "slider" /\ ~zlast.same /\ zlast.i = 1
    /\ slicer.dims[zlast.axis] = 2
    /\ Len(slicer.actors) >= 3
    /\ \E k \in SlicesOf(slicer, zlast.axis) : slicer.actors[k].idx = 1

(***************************************************************************)
(* Slicer3DPlotter.__init__: the display range of the colormaps.            *)
(***************************************************************************)
KFixed == UNCHANGED <<pvars, avars, fvars, svars, bvars, ivars, zvars, rvars, mvars, gvars, lvars, tvars>>

\* rmin, rmax = volume.scalar_range()
KConstructed(raw, clamp) ==
    rng = [raw |-> raw, clamp |-> clamp, vrange |-> <<raw[1], raw[2]>>, done |-> FALSE]

KInit == \E raw \in RawRanges, clamp \in BOOLEAN : KConstructed(raw, clamp)

\* if clamp: ...
ClampRange ==
    /\ ~rng.done /\ rng.clamp
    /\ rng' = [rng EXCEPT !.vrange = clamp_range(rng.raw[1], rng.raw[2], rng.raw[3]),
                          !.done = TRUE]
    /\ KFixed

\* clamp=False: the raw range is used
KeepRange ==
    /\ ~rng.done /\ ~rng.clamp
    /\ rng' = [rng EXCEPT !.done = TRUE]
    /\ KFixed

KNext == ClampRange \/ KeepRange

\* C23: with clamp=True the display range is
\* (max(rawmin, meanlog - (rawmax - meanlog)*0.9),
\*  min(rawmax, meanlog + (meanlog - rawmin)*0.9)), both from the raw range.
C23_ClampFromRaw ==
    (rng.done /\ rng.clamp) =>
        rng.vrange = clamp_range_raw(rng.raw[1], rng.raw[2], rng.raw[3])

(***************************************************************************)
(* RayCastPlotter.  Opacities are in hundredths.  The opacity transfer      *)
(* function is vtkPiecewiseFunction: a set of nodes (x, y) with at most one *)
(* node at an x, AddPoint replacing the node already there.                 *)
(***************************************************************************)
\* len(cmaps)
Ncols == 10
\* (smin, smax) = img.GetScalarRange()
ScalarRanges == {<<0, 0>>, <<0, 20>>, <<20, 60>>}
\* volume.dimensions()[2]
ZDims == {2, 3}
\* the values an opacity slider is moved to
AlphaValues == {0, 50, 100}

\* vtkPiecewiseFunction.AddPoint
AddPoint(otf, x, y) == {n \in otf : n[1] # x} \cup {<<x, y>>}

\* setOTF
setOTF(r) ==
    LET smin == r.smin
        smax == r.smax
        f0 == {}
        f1 == AddPoint(f0, smin, 0)
        f2 == AddPoint(f1, smin + ((smax - smin) * 1) \div 10, 0)
        f3 == AddPoint(f2, smin + ((smax - smin) * 25) \div 100, r.alphaslider[1])
        f4 == AddPoint(f3, smin + ((smax - smin) * 5) \div 10, r.alphaslider[2])
        f5 == AddPoint(f4, smin + ((smax - smin) * 10) \div 10, r.alphaslider[3])
    IN [r EXCEPT !.otf = f5]

\* RayCastPlotter.__init__; a volume of fewer than 3 slices raises RuntimeError
RayConstructed(range, zdim) ==
    LET r0 == [ok |-> zdim >= 3, smin |-> range[1], smax |-> range[2],
               alphaslider |-> <<33, 66, 100>>, otf |-> {},
               cmap |-> 0, mode |-> 0, bum |-> 0]
    IN IF zdim < 3 THEN r0 ELSE setOTF(r0)

\* every opacity slider writes alphaslider0
sliderA_first(r, j, v) == setOTF([r EXCEPT !.alphaslider[1] = v])

\* sliderA0, sliderA1, sliderA2
sliderA(r, j, v) == setOTF([r EXCEPT !.alphaslider[j] = v])

\* sliderColorMap
sliderColorMap(r, k) == [r EXCEPT !.cmap = k]

\* button_func_mode, for a click that hit the button
button_func_mode(r) == [r EXCEPT !.mode = (@ + 1) % 2, !.bum = (@ + 1) % 2]

RLast(op, j, before) == [op |-> op, which |-> j, before |-> before]

RFixed == UNCHANGED <<pvars, avars, fvars, svars, bvars, ivars, zvars, kvars, mvars, gvars, lvars, tvars>>

RConstructed(range, zdim) ==
    /\ ray = RayConstructed(range, zdim)
    /\ rlast = RLast("construct", 0, <<33, 66, 100>>)

RInit == \E range \in ScalarRanges, zdim \in ZDims : RConstructed(range, zdim)

AlphaSlider ==
    /\ ray.ok
    /\ \E j \in 1..3, v \in AlphaValues :
        /\ ray' = sliderA(ray, j, v)
        /\ rlast' = RLast("alpha", j, ray.alphaslider)
    /\ RFixed

ColorMapSlider ==
    /\ ray.ok
    /\ \E k \in 0..(Ncols - 1) : ray' = sliderColorMap(ray, k)
    /\ rlast' = RLast("cmap", 0, ray.alphaslider)
    /\ RFixed

ModeButton ==
    /\ ray.ok
    /\ ray' = button_func_mode(ray)
    /\ rlast' = RLast("mode", 0, ray.alphaslider)
    /\ RFixed

RNext == AlphaSlider \/ ColorMapSlider \/ ModeButton

\* the five control points of the claim
FivePoints(r) ==
    {<<r.smin, 0>>,
     <<r.smin + (r.smax - r.smin) \div 10, 0>>,
     <<r.smin + (r.smax - r.smin) \div 4, r.alphaslider[1]>>,
     <<r.smin + (r.smax - r.smin) \div 2, r.alphaslider[2]>>,
     <<r.smax, r.alphaslider[3]>>}

OnlyOwnSliderMoved ==
    rlast.op = "alpha" =>
        \A j \in 1..3 : j # rlast.which => ray.alphaslider[j] = rlast.before[j]

\* C24: after construction and after any changes of the three opacity
\* sliders the transfer function has exactly five control points, at min,
\* min+0.1*span, min+0.25*span, min+0.5*span and max, the first two of
\* opacity 0 and the others of the sliders' values; a slider moves only its own.
C24_FiveControlPoints ==
    ray.ok =>
        /\ Cardinality(ray.otf) = 5
        /\ ray.otf = FivePoints(ray)
        /\ OnlyOwnSliderMoved

\* C24, amended: the same for a volume whose scalar range is not a single
\* value; when min = max the function has the one point (max, alphaslider2).
C24_FivePointsWhenRangeOpen ==
    ray.ok =>
        /\ ray.smin < ray.smax =>
            Cardinality(ray.otf) = 5 /\ ray.otf = FivePoints(ray)
        /\ ray.smin = ray.smax => ray.otf = {<<ray.smax, ray.alphaslider[3]>>}
        /\ OnlyOwnSliderMoved

\* the middle slider has been moved, on a volume with an open range
C24_Witness ==
    /\ ray.ok /\ ray.smin < ray.smax
    /\ rlast.op = "alpha" /\ rlast.which = 2
    /\ ray.alphaslider = <<33, 50, 100>>
    /\ <<ray.smin + (ray.smax - ray.smin) \div 2, 50>> \in ray.otf

(***************************************************************************)
(* Assembly.  A drawable, a python list and an Assembly are records of one  *)
(* shape: kind, id (which object it is), sb (its scalarbar), items (the     *)
(* entries of a list, the actors of an Assembly), pos and the pickable      *)
(* flag.  A scalarbar is None, a bar, or a Group of parts.                  *)
(***************************************************************************)
\* the longest list of constituents an Assembly is built from
MaxParts == 3

NoBar == [kind |-> "none", id |-> 0, parts |-> <<>>]
Bar(i) == [kind |-> "bar", id |-> i, parts |-> <<>>]
Origin == <<0, 0, 0>>

\* a Mesh, with or without a scalarbar of its own
MeshObj(i, withbar) ==
    [kind |-> "mesh", id |-> i, sb |-> IF withbar THEN Bar(i) ELSE NoBar,
     items |-> <<>>, pos |-> Origin, pickable |-> TRUE, clone |-> FALSE]

\* a python list
ListObj(items) ==
    [kind |-> "list", id |-> 0, sb |-> NoBar, items |-> items, pos |-> Origin,
     pickable |-> TRUE, clone |-> FALSE]

\* what a failed construction leaves
Raised(err) ==
    [kind |-> err, id |-> 0, sb |-> NoBar, items |-> <<>>, pos |-> Origin,
     pickable |-> TRUE, clone |-> FALSE]

\* vedo.utils.flatten: lists inside lists are opened, anything else is kept
RECURSIVE flatten(_)
flatten(items) ==
    IF items = <<>> THEN <<>>
    ELSE IF Head(items).kind = "list"
         THEN flatten(Head(items).items) \o flatten(Tail(items))
         ELSE <<Head(items)>> \o flatten(Tail(items))

\* vtkPropAssembly.AddPart: a part is held once
RECURSIVE AddParts(_, _)
AddParts(parts, new) ==
    IF new = <<>> THEN parts
    ELSE AddParts(IF \E k \in 1..Len(parts) : parts[k] = Head(new)
                  THEN parts ELSE Append(parts, Head(new)),
                  Tail(new))

\* Group(objects): the flattened objects are its parts (a Group is no list)
Group(sbs) == [kind |-> "group", id |-> 0, parts |-> AddParts(<<>>, sbs)]

\* Group.__iadd__: a sequence is added part by part, anything else as one part
Group_iadd(g, sbs) == [g EXCEPT !.parts = AddParts(@, sbs)]

\* Group.unpack
Group_unpack(g) == g.parts

\* hasattr(a, "scalarbar") and a.scalarbar is not None
has_scalarbar(a) == a.kind \in {"mesh", "assembly"} /\ a.sb.kind # "none"

\* the loop collecting the constituents' scalar bars
RECURSIVE collect_scalarbars(_)
collect_scalarbars(meshs) ==
    IF meshs = <<>> THEN <<>>
    ELSE (IF has_scalarbar(Head(meshs)) THEN <<Head(meshs).sb>> ELSE <<>>)
            \o collect_scalarbars(Tail(meshs))

\* a single bar is wrapped in a Group as well
aggregate_wraps_one(scalarbars) ==
    IF Len(scalarbars) >= 1 THEN Group(scalarbars) ELSE NoBar

\* len(scalarbars) > 1: a Group; == 1: the bar itself; else Base3DProp's None
aggregate(scalarbars) ==
    IF Len(scalarbars) > 1 THEN Group(scalarbars)
    ELSE IF Len(scalarbars) = 1 THEN scalarbars[1]
    ELSE NoBar

\* if len(meshs) == 1: meshs = meshs[0]; else: meshs = flatten(meshs)
select_meshs(args) ==
    IF Len(args) = 1 THEN args[1].items ELSE flatten(args)

\* Assembly.__init__(*meshs), for the object id; a lone argument that is no
\* list is indexed and iterated, which a drawable does not support
Assembly(args, id) ==
    IF Len(args) = 1 /\ args[1].kind # "list" THEN Raised("TypeError")
    ELSE LET meshs == select_meshs(args) IN
         [kind |-> "assembly", id |-> id,
          sb |-> aggregate(collect_scalarbars(meshs)),
          items |-> meshs, pos |-> Origin, pickable |-> TRUE, clone |-> FALSE]

\* unpack_group
unpack_group(sb) == IF sb.kind = "group" THEN Group_unpack(sb) ELSE <<sb>>

\* Assembly.__add__
Assembly_add(self, obj) ==
    [self EXCEPT
        !.items = Append(@, obj),
        !.sb = IF ~has_scalarbar(obj) THEN @
               ELSE IF @.kind = "none" THEN obj.sb
               ELSE IF @.kind = "group" THEN Group_iadd(@, unpack_group(obj.sb))
               ELSE Group(unpack_group(@) \o unpack_group(obj.sb))]

\* x.clone().shift(apos)
shifted_clone(x, apos) ==
    [x EXCEPT !.clone = TRUE,
              !.pos = <<@[1] + apos[1], @[2] + apos[2], @[3] + apos[3]>>]

\* asum = np.sum(apos); if asum:
nonzero(apos) == apos[1] + apos[2] + apos[3] # 0

\* for x in elem.unpack(): clones shifted by a nonzero position, else x
unpack_nested(elem) ==
    [k \in 1..Len(elem.items) |->
        IF nonzero(elem.pos) THEN shifted_clone(elem.items[k], elem.pos)
        ELSE elem.items[k]]

\* _genflatten's loop over lst
RECURSIVE genflatten(_)
genflatten(lst) ==
    IF lst = <<>> THEN <<>>
    ELSE (IF Head(lst).kind = "assembly" THEN unpack_nested(Head(lst))
          ELSE <<Head(lst)>>) \o genflatten(Tail(lst))

\* Assembly.recursive_unpack: lst[0] is self, an Assembly, so lst = self.unpack()
recursive_unpack(self) == genflatten(self.items)

\* elem.SetPickable(value), on the object itself: a clone is another object
RECURSIVE SetPickable(_, _, _)
SetPickable(obj, id, v) ==
    [obj EXCEPT !.pickable = IF obj.id = id /\ obj.kind # "list" THEN v ELSE @,
                !.items = [k \in 1..Len(obj.items) |-> SetPickable(obj.items[k], id, v)]]

RECURSIVE SetPickableAll(_, _, _)
SetPickableAll(obj, elems, v) ==
    IF elems = <<>> THEN obj
    ELSE SetPickableAll(IF Head(elems).clone THEN obj
                        ELSE SetPickable(obj, Head(elems).id, v),
                        Tail(elems), v)

\* Assembly.pickable(value); Base3DProp.pickable sets the object's own flag
Assembly_pickable(self, v) ==
    [SetPickableAll(self, recursive_unpack(self), v) EXCEPT !.pickable = v]

\* ---- the objects the assemblies are built from ----
MeshA == MeshObj(1, FALSE)
MeshB == MeshObj(2, TRUE)
MeshC == MeshObj(3, TRUE)
\* the Assembly id of the meshes id+1 and id+2 with their scalar bars, placed at pos
InnerAt(id, pos) ==
    [Assembly(<<ListObj(<<MeshObj(id + 1, TRUE), MeshObj(id + 2, TRUE)>>)>>, id)
        EXCEPT !.pos = pos]
Inner(pos) == InnerAt(4, pos)
\* an Assembly holding an Assembly
Outer == Assembly(<<ListObj(<<InnerAt(10, Origin), MeshObj(8, FALSE)>>)>>, 7)
Positions == {Origin, <<1, 0, 0>>, <<1, -1, 0>>}
Constituents == {MeshA, MeshB, MeshC, Outer} \cup {Inner(p) : p \in Positions}

RECURSIVE FlatLists(_)
FlatLists(n) ==
    IF n = 0 THEN {<<>>}
    ELSE FlatLists(n - 1) \cup
         {Append(l, c) : l \in {m \in FlatLists(n - 1) : Len(m) = n - 1},
                         c \in Constituents}

DistinctLists(n) ==
    {l \in FlatLists(n) : \A i, j \in 1..Len(l) : i # j => l[i].id # l[j].id}

\* Assembly([..]), Assembly(a, b, ..), Assembly([a, [b, c]]), Assembly(a, [b, c]), Assembly(a)
ArgTuples ==
    {<<ListObj(l)>> : l \in DistinctLists(MaxParts)}
        \cup {l \in DistinctLists(MaxParts) : Len(l) >= 2}
        \cup {<<ListObj(<<MeshA, ListObj(<<MeshB, MeshC>>)>>)>>,
              <<MeshA, ListObj(<<MeshB, MeshC>>)>>,
              <<MeshA>>, <<Inner(Origin)>>}

MLast(op, args, obj, fresh, result) ==
    [op |-> op, args |-> args, obj |-> obj, fresh |-> fresh, result |-> result]

MFixed == UNCHANGED <<pvars, avars, fvars, svars, bvars, ivars, zvars, kvars, rvars, gvars, lvars, tvars>>

MConstructed(args) ==
    /\ asm = Assembly(args, 9)
    /\ mlast = MLast("construct", args, MeshA, TRUE, <<>>)

MInit == \E args \in ArgTuples : MConstructed(args)

AsmAdd ==
    /\ asm.kind = "assembly" /\ mlast.fresh
    /\ \E obj \in Constituents :
        /\ \A k \in 1..Len(asm.items) : asm.items[k].id # obj.id
        /\ asm' = Assembly_add(asm, obj)
        /\ mlast' = MLast("add", mlast.args, obj, FALSE, <<>>)
    /\ MFixed

AsmRecursiveUnpack ==
    /\ asm.kind = "assembly"
    /\ mlast.op # "recursive_unpack"
    /\ asm' = asm
    /\ mlast' = MLast("recursive_unpack", mlast.args, MeshA, FALSE, recursive_unpack(asm))
    /\ MFixed

AsmPickable ==
    /\ asm.kind = "assembly"
    /\ \E v \in BOOLEAN :
        /\ asm' = Assembly_pickable(asm, v)
        /\ mlast' = MLast(IF v THEN "pickable_on" ELSE "pickable_off",
                          mlast.args, MeshA, FALSE, <<>>)
    /\ MFixed

\* pickable() with no argument: returns the flag, recorded as the result
AsmPickableGet ==
    /\ asm.kind = "assembly"
    /\ mlast.op # "pickable_get"
    /\ asm' = asm
    /\ mlast' = MLast("pickable_get", mlast.args, MeshA, FALSE,
                      <<[asm EXCEPT !.items = <<>>]>>)
    /\ MFixed

MNext == AsmAdd \/ AsmRecursiveUnpack \/ AsmPickable \/ AsmPickableGet

\* the constituents that carry a scalar bar, and their bars
Carriers(meshs) == SelectSeq(meshs, LAMBDA a : a.kind # "list" /\ a.sb.kind # "none")
BarsOf(meshs) == [k \in 1..Len(Carriers(meshs)) |-> Carriers(meshs)[k].sb]

\* C25: a constructed Assembly has no scalarbar when no constituent carries
\* one, the very bar of the only constituent that carries one, and for k >= 2
\* carriers a Group of exactly their k bars.
C25_ScalarbarAggregation ==
    (mlast.op = "construct" /\ asm.kind = "assembly") =>
        LET bars == BarsOf(asm.items) IN
        /\ Len(bars) = 0 => asm.sb = NoBar
        /\ Len(bars) = 1 => asm.sb = bars[1]
        /\ Len(bars) >= 2 => asm.sb.kind = "group" /\ asm.sb.parts = bars

\* three constituents, two of them with a scalar bar
C25_Witness ==
    /\ mlast.op = "construct" /\ asm.kind = "assembly"
    /\ Len(asm.items) = 3
    /\ Len(BarsOf(asm.items)) = 2
    /\ asm.sb.kind = "group" /\ Len(asm.sb.parts) = 2

\* C26: after Assembly([a1..an]) + b the assembly contains b and its
\* scalarbar has the structure and the bars of Assembly([a1, ..., an, b]).
C26_AddLikeConstruction ==
    mlast.op = "add" =>
        /\ \E k \in 1..Len(asm.items) : asm.items[k] = mlast.obj
        /\ asm.sb = Assembly(<<ListObj(asm.items)>>, asm.id).sb

\* C27: Assembly([a, [b, c]]) has the constituents a, b, c in that order,
\* as Assembly(a, [b, c]) has; Assembly(a) has the one constituent a.
C27_NestedListFlattened ==
    mlast.op = "construct" =>
        /\ asm.kind = "assembly"
        /\ asm.items = flatten(mlast.args)

\* the leaf drawables reachable from an object, depth first
RECURSIVE Leaves(_)
RECURSIVE LeavesOfAll(_)
Leaves(obj) == IF obj.kind = "mesh" THEN <<obj.id>> ELSE LeavesOfAll(obj.items)
LeavesOfAll(items) ==
    IF items = <<>> THEN <<>> ELSE Leaves(Head(items)) \o LeavesOfAll(Tail(items))

\* C28: recursive_unpack returns no Assembly and one entry for every leaf
\* drawable reachable from the assembly, in depth-first order.
C28_FullyFlattened ==
    mlast.op = "recursive_unpack" =>
        /\ \A k \in 1..Len(mlast.result) : mlast.result[k].kind # "assembly"
        /\ [k \in 1..Len(mlast.result) |-> mlast.result[k].id] = Leaves(asm)

\* C29: the children of a nested Assembly at a position other than (0,0,0)
\* are returned as clones shifted by it, those of a nested Assembly at
\* (0,0,0) as the objects themselves.
C29_ShiftedWhenNonzero ==
    mlast.op = "recursive_unpack" =>
        \A k \in 1..Len(asm.items) :
            asm.items[k].kind = "assembly" =>
                \A c \in 1..Len(asm.items[k].items) :
                    LET x == asm.items[k].items[c]
                        apos == asm.items[k].pos
                    IN \E j \in 1..Len(mlast.result) :
                        /\ mlast.result[j].id = x.id
                        /\ apos = Origin => mlast.result[j] = x
                        /\ apos # Origin => mlast.result[j] = shifted_clone(x, apos)

\* the pickable flags of the leaf drawables reachable from an object
RECURSIVE LeafFlags(_)
LeafFlags(obj) ==
    IF obj.kind = "mesh" THEN {obj.pickable}
    ELSE UNION {LeafFlags(obj.items[k]) : k \in 1..Len(obj.items)}

\* C30: after pickable(v) the assembly and every part reachable from it have
\* the flag v; pickable() changes no flag and returns the assembly's own.
C30_PickableReachesAll ==
    /\ mlast.op \in {"pickable_on", "pickable_off"} =>
        /\ asm.pickable = (mlast.op = "pickable_on")
        /\ LeafFlags(asm) \subseteq {mlast.op = "pickable_on"}
    /\ mlast.op = "pickable_get" => mlast.result[1].pickable = asm.pickable

(***************************************************************************)
(* Group.  The objects handed to a Group are records of the shape used for *)
(* the constituents of an Assembly; None and False are objects of their    *)
(* own kind.  A Group is its list of parts and the error of the last call. *)
(***************************************************************************)
\* the longest sequence handed to Group() or to +=
MaxEntries == 3

NoneObj == [kind |-> "None", id |-> 0, sb |-> NoBar, items |-> <<>>, pos |-> Origin,
            pickable |-> TRUE, clone |-> FALSE]
FalseObj == [kind |-> "False", id |-> 0, sb |-> NoBar, items |-> <<>>, pos |-> Origin,
             pickable |-> TRUE, clone |-> FALSE]

\* the truth value of `a`, as in `if a:`
truthy(a) ==
    CASE a.kind \in {"None", "False"} -> FALSE
      [] a.kind = "list" -> a.items # <<>>
      [] OTHER -> TRUE

\* vedo.utils.is_sequence, for an object of the record shape
is_list(a) == a.kind = "list"

\* AddPart for each entry that is truthy; a python list is no vtkProp, and
\* AddPart raises on it
RECURSIVE add_truthy(_, _)
add_truthy(g, items) ==
    IF items = <<>> THEN g
    ELSE LET a == Head(items) IN
         IF ~truthy(a) THEN add_truthy(g, Tail(items))
         ELSE IF a.kind = "list" THEN [g EXCEPT !.err = "TypeError"]
         ELSE add_truthy([g EXCEPT !.parts = AddParts(@, <<a>>)], Tail(items))

EmptyGroup == [parts |-> <<>>, err |-> ""]

\* Group.__init__
Group_init(objects) == add_truthy(EmptyGroup, flatten(objects))

\* Group.__iadd__
Group_iadd_obj(g, obj) ==
    add_truthy([g EXCEPT !.err = ""],
               IF ~is_list(obj) THEN <<obj>> ELSE obj.items)

\* the entries of the sequences: meshes, None, False, a nested list
Entries == {MeshA, MeshB, MeshC, NoneObj, FalseObj,
            ListObj(<<MeshB, FalseObj, MeshC>>)}

EntryLists == UNION {[1..n -> Entries] : n \in 0..MaxEntries}

GFixed == UNCHANGED <<pvars, avars, fvars, svars, bvars, ivars, zvars, kvars, rvars, mvars, lvars, tvars>>

GConstructed(objects) ==
    /\ grp = Group_init(objects)
    /\ glast = [op |-> "construct", arg |-> ListObj(objects), before |-> <<>>]

\* Group(objects) for the sequences of the model
GInit == \E objects \in EntryLists : Len(objects) <= 1 /\ GConstructed(objects)

\* g += x for a sequence or a single object
GroupIadd ==
    /\ \E obj \in {ListObj(l) : l \in EntryLists} \cup {MeshA, MeshB, MeshC} :
        /\ grp' = Group_iadd_obj(grp, obj)
        /\ glast' = [op |-> "iadd", arg |-> obj, before |-> grp.parts]
    /\ GFixed

GNext == GroupIadd

\* C31: g += x appends to g exactly the parts that Group(x) would hold, in
\* the same order, for a sequence x however nested and whatever falsy entries
\* it has; g += single_object appends that object.
C31_IaddLikeConstruction ==
    glast.op = "iadd" =>
        /\ grp.err = ""
        /\ grp.parts = AddParts(glast.before,
              IF is_list(glast.arg) THEN Group_init(glast.arg.items).parts
              ELSE <<glast.arg>>)

(***************************************************************************)
(* procrustes_alignment.  A source is its name (None when it has no name   *)
(* attribute) and its number of points; an output mesh is the block of the *)
(* filter's output it was made from and the name it was given.             *)
(***************************************************************************)
\* the longest list of sources
MaxSources == 3

SourceNames == {None, Some("s1"), Some("s2")}
PointCounts == {9, 10}
Sources == [name : SourceNames, npoints : PointCounts]
SourceLists == UNION {[1..n -> Sources] : n \in 1..MaxSources}

\* the loop over the sources looking at the first two of them only
RECURSIVE group_inputs_first_two(_, _, _)
group_inputs_first_two(sources, k, added) ==
    IF k > Len(sources) THEN [err |-> "", added |-> added]
    ELSE IF k <= 2 /\ sources[1].npoints # sources[k].npoints
         THEN [err |-> "RuntimeError", added |-> added]
         ELSE group_inputs_first_two(sources, k + 1, added + 1)

\* the loop over the sources from the k-th on: a source whose point count is
\* not that of the first raises, any other is added to the group filter
RECURSIVE group_inputs(_, _, _)
group_inputs(sources, k, added) ==
    IF k > Len(sources) THEN [err |-> "", added |-> added]
    ELSE IF sources[1].npoints # sources[k].npoints
         THEN [err |-> "RuntimeError", added |-> added]
         ELSE group_inputs(sources, k + 1, added + 1)

\* the loop over the output blocks: mesh i is made from block i and takes the
\* name of source i when that has one
aligned_meshes(sources) ==
    [i \in 1..Len(sources) |-> [block |-> i, name |-> sources[i].name]]

\* procrustes_alignment(sources, rigid)
procrustes_alignment(sources, rigid) ==
    LET g == group_inputs(sources, 1, 0) IN
    IF g.err # ""
    THEN [err |-> g.err, added |-> g.added, updated |-> FALSE, mode |-> "",
          actors |-> <<>>]
    ELSE [err |-> "", added |-> g.added, updated |-> TRUE,
          mode |-> IF rigid THEN "rigid" ELSE "similarity",
          actors |-> aligned_meshes(sources)]

LFixed == UNCHANGED <<pvars, avars, fvars, svars, bvars, ivars, zvars, kvars, rvars, mvars, gvars, tvars>>

\* the sources at hand, nothing called yet
LConstructed(sources) ==
    align = [sources |-> sources, called |-> FALSE, rigid |-> FALSE,
             out |-> [err |-> "", added |-> 0, updated |-> FALSE, mode |-> "",
                      actors |-> <<>>]]

LInit == \E sources \in SourceLists : LConstructed(sources)

\* procrustes_alignment is called on the sources
Align ==
    /\ ~align.called
    /\ \E rigid \in BOOLEAN :
        align' = [align EXCEPT !.called = TRUE, !.rigid = rigid,
                               !.out = procrustes_alignment(align.sources, rigid)]
    /\ LFixed

LNext == Align

\* some source has a point count that is not the first source's
CountsDiffer(sources) ==
    \E k \in 1..Len(sources) : sources[k].npoints # sources[1].npoints

\* C32: procrustes_alignment raises whenever some source has a point count
\* other than the first source's, wherever it is in the list, and raises before
\* the alignment filter is run; with equal counts it returns an Assembly of one
\* aligned part per source, in source order, each with its source's name.
C32_CountsCheckedFirst ==
    align.called =>
        IF CountsDiffer(align.sources)
        THEN /\ align.out.err = "RuntimeError"
             /\ ~align.out.updated
             /\ align.out.actors = <<>>
        ELSE /\ align.out.err = ""
             /\ align.out.updated
             /\ Len(align.out.actors) = Len(align.sources)
             /\ \A i \in 1..Len(align.sources) :
                   /\ align.out.actors[i].block = i
                   /\ align.out.actors[i].name = align.sources[i].name

\* three sources of which the last alone has another point count: the call
\* raised after two sources were added, and the filter was not run
C32_Witness ==
    /\ align.called
    /\ Len(align.sources) = 3
    /\ align.sources[1].npoints = 10 /\ align.sources[2].npoints = 10
    /\ align.sources[3].npoints = 9
    /\ align.out.err = "RuntimeError"
    /\ align.out.added = 2
    /\ ~align.out.updated

(***************************************************************************)
(* Clock.  A hand is known by where it points: the hour hand by the minute *)
(* of the twelve hours, the minute and second hands by the minute and the  *)
(* second.  The parts are the list handed to Assembly.__init__, with None   *)
(* for a second hand that was not made.                                    *)
(***************************************************************************)
\* the times of day handed to the clock and read from time.localtime()
ClockHours == {3, 15}
ClockMinutes == {0, 30}
ClockSeconds == {0, 45}
LocalTimes == {<<3, 30, 45>>, <<15, 0, 0>>}

Part(kind, at) == [kind |-> kind, at |-> at]
NoPart == Part("None", 0)

\* alpha = 2*pi*t + pi/2 for t = (h*60 + m)/12/60: the angle of the hour hand,
\* in 720ths of a turn from twelve o'clock
hour_angle(h, m) == ((h % 24) * 60 + (m % 60)) % 720

\* beta = 12*2*pi*t + pi/2: the angle of the minute hand, in 60ths of a turn
minute_angle(h, m) == ((h % 24) * 60 + (m % 60)) % 60

\* gamma = s*2*pi/60 + pi/2: the angle of the second hand, in 60ths of a turn
second_angle(s) == s % 60

\* if h is None and m is None: the time is read from time.localtime()
clock_time(h, m, s, now) ==
    IF h = None /\ m = None
    THEN [h |-> Some(now[1]), m |-> Some(now[2]), s |-> Some(now[3])]
    ELSE [h |-> h, m |-> m, s |-> s]

\* Clock.__init__
Clock(h, m, s, now) ==
    LET t == clock_time(h, m, s, now) IN
    [parts |-> << Part("back1", 0), Part("labels", 0),
                  Part("ore", hour_angle(t.h[1], t.m[1])),
                  Part("minu", minute_angle(t.h[1], t.m[1])),
                  IF t.s # None THEN Part("secs", second_angle(t.s[1])) ELSE NoPart,
                  Part("txt", 0) >>,
     err |-> ""]

\* Clock.update; int(None) raises TypeError, None has no points()
update(c, h, m, s, now) ==
    LET t == clock_time(h, m, s, now) IN
    IF t.h = None \/ t.m = None THEN [c EXCEPT !.err = "TypeError"]
    ELSE LET c3 == [c EXCEPT !.err = "",
                             !.parts[3].at = hour_angle(t.h[1], t.m[1]),
                             !.parts[4].at = minute_angle(t.h[1], t.m[1])]
         IN IF t.s = None THEN c3
            ELSE IF c3.parts[5].kind = "None"
                 THEN [c3 EXCEPT !.err = "AttributeError"]
                 ELSE [c3 EXCEPT !.parts[5].at = second_angle(t.s[1])]

Kinds(c) == [i \in 1..Len(c.parts) |-> c.parts[i].kind]

TFixed == UNCHANGED <<pvars, avars, fvars, svars, bvars, ivars, zvars, kvars, rvars, mvars, gvars, lvars>>

TConstructed(h, m, s, now) ==
    /\ clock = Clock(h, m, s, now)
    /\ tlast = [op |-> "construct", h |-> h, m |-> m, s |-> s,
                kinds |-> Kinds(Clock(h, m, s, now))]

\* Clock(), Clock(h, m) and Clock(h, m, s)
TInit ==
    \E now \in LocalTimes :
        \/ TConstructed(None, None, None, now)
        \/ \E h \in ClockHours, m \in ClockMinutes :
             \E s \in {None} \cup {Some(x) : x \in ClockSeconds} :
                TConstructed(Some(h), Some(m), s, now)

\* update() and update(h, m, s) with any of the arguments left out
ClockUpdate ==
    /\ \E now \in LocalTimes :
       \E h \in {None} \cup {Some(x) : x \in ClockHours} :
       \E m \in {None} \cup {Some(x) : x \in ClockMinutes} :
       \E s \in {None} \cup {Some(x) : x \in ClockSeconds} :
        /\ clock' = update(clock, h, m, s, now)
        /\ tlast' = [op |-> "update", h |-> h, m |-> m, s |-> s,
                     kinds |-> Kinds(clock)]
    /\ TFixed

TNext == ClockUpdate

\* C35: for a Clock built without a second hand, update() with no arguments
\* and update(h, m, s) complete without error, leave the number and the order
\* of the parts as they were and make no second hand.
C35_UpdateNeverFails ==
    (/\ tlast.op = "update"
     /\ tlast.kinds[5] = "None"
     /\ \/ tlast.h = None /\ tlast.m = None /\ tlast.s = None
        \/ tlast.h # None /\ tlast.m # None /\ tlast.s # None) =>
        /\ clock.err = ""
        /\ Kinds(clock) = tlast.kinds

(***************************************************************************)
(* The specifications.                                                     *)
(***************************************************************************)

\* the component that a specification leaves alone, as constructed
PParked == PConstructed(<<0, 1>>, TRUE)
AParked == AConstructed(DefaultTimeResolution)
SParked == SConstructed(<<>>, TRUE)
BParked == BConstructed(1, 1, FALSE, FALSE, "")
IParked == IConstructed(0, 2, FALSE)
ZParked == ZConstructed(<<1, 2, 1>>, 1, FALSE)
KParked == KConstructed(<<0, 1000, 500>>, FALSE)
RParked == RConstructed(<<0, 20>>, 3)
MParked == MConstructed(<<ListObj(<<>>)>>)
GParked == GConstructed(<<>>)
LParked == LConstructed(<<[name |-> None, npoints |-> 9]>>)
TParked == TConstructed(Some(3), Some(0), None, <<3, 30, 45>>)
XParked == CInit /\ SParked /\ BParked /\ IParked /\ ZParked /\ KParked /\ RParked /\ MParked /\ GParked /\ LParked /\ TParked

Init == PInit /\ AParked /\ XParked

SpecPlayer == Init /\ [][PNext]_vars

\* playback with the timer ticking as long as it is active
SpecPlayback == Init /\ [][PlaybackNext]_vars /\ WF_vars(TimerEvent)

InitAnim == AInit /\ PParked /\ XParked

SpecAnim == InitAnim /\ [][ANext]_vars

InitQuant == QInit /\ PParked /\ XParked

SpecQuant == InitQuant /\ [][QNext]_vars

InitCut == CInit /\ PParked /\ AParked /\ SParked /\ BParked /\ IParked /\ ZParked /\ KParked /\ RParked /\ MParked /\ GParked /\ LParked /\ TParked

SpecCut == InitCut /\ [][CNext]_vars

InitSpline == SInit /\ PParked /\ AParked /\ CInit /\ BParked /\ IParked /\ ZParked /\ KParked /\ RParked /\ MParked /\ GParked /\ LParked /\ TParked

SpecSpline == InitSpline /\ [][SNext]_vars

InitBrowser == BInit /\ PParked /\ AParked /\ CInit /\ SParked /\ IParked /\ ZParked /\ KParked /\ RParked /\ MParked /\ GParked /\ LParked /\ TParked

SpecBrowser == InitBrowser /\ [][BNext]_vars

InitIso == IInit /\ PParked /\ AParked /\ CInit /\ SParked /\ BParked /\ ZParked /\ KParked /\ RParked /\ MParked /\ GParked /\ LParked /\ TParked

SpecIso == InitIso /\ [][INext]_vars

InitSlicer == ZInit /\ PParked /\ AParked /\ CInit /\ SParked /\ BParked /\ IParked /\ KParked /\ RParked /\ MParked /\ GParked /\ LParked /\ TParked

SpecSlicer == InitSlicer /\ [][ZNext]_vars

InitClamp == KInit /\ PParked /\ AParked /\ CInit /\ SParked /\ BParked /\ IParked /\ ZParked /\ RParked /\ MParked /\ GParked /\ LParked /\ TParked

SpecClamp == InitClamp /\ [][KNext]_vars

InitRay == RInit /\ PParked /\ AParked /\ CInit /\ SParked /\ BParked /\ IParked /\ ZParked /\ KParked /\ MParked /\ GParked /\ LParked /\ TParked

SpecRay == InitRay /\ [][RNext]_vars

InitAsm == MInit /\ PParked /\ AParked /\ CInit /\ SParked /\ BParked /\ IParked /\ ZParked /\ KParked /\ RParked /\ GParked /\ LParked /\ TParked

SpecAsm == InitAsm /\ [][MNext]_vars

InitGroup == GInit /\ PParked /\ AParked /\ CInit /\ SParked /\ BParked /\ IParked /\ ZParked /\ KParked /\ RParked /\ MParked /\ LParked /\ TParked

SpecGroup == InitGroup /\ [][GNext]_vars

InitAlign == LInit /\ PParked /\ AParked /\ CInit /\ SParked /\ BParked /\ IParked /\ ZParked /\ KParked /\ RParked /\ MParked /\ GParked /\ TParked

SpecAlign == InitAlign /\ [][LNext]_vars

InitClock == TInit /\ PParked /\ AParked /\ CInit /\ SParked /\ BParked /\ IParked /\ ZParked /\ KParked /\ RParked /\ MParked /\ GParked /\ LParked

SpecClock == InitClock /\ [][TNext]_vars

====
